---- MODULE Spec2Model ----
(***************************************************************************)
(* Cluster membership and coordination of drcedit: the Discovery service   *)
(* (UDP JOIN/HELLO/ACK discovery, Bully election, role assignment) of      *)
(* src/server/services/Discovery.ts, one instance per host, and the        *)
(* datagrams in flight between the instances.                              *)
(***************************************************************************)
EXTENDS Integers, Sequences, FiniteSets, TLC

(***************************************************************************)
(* Hosts, addresses and priorities                                         *)
(***************************************************************************)

\* The hosts of the subnet: host k has the address 10.0.0.k.
HOSTS == {1, 2, 3}

\* The netmask of the interface every host uses (a /24 network).
NETMASK == <<255, 255, 255, 0>>

\* The dotted IPv4 address of host k, as its four octets.
IP(k) == <<10, 0, 0, k>>

\* Longest role list a membership entry may reach before the model stops
\* starting further role assignments.
MaxRoles == 3

\* The hosts that may fall silent in a run.
CRASHABLE == {3}

\* The datagrams the instance that is run on its own receives in a run.
MaxDatagrams == 2

\* The Messaging instances the role controller constructs in a run.
MaxInstances == 6

\* An address no host has, and no host can have: k = 999 stands for the
\* string "10.0.0.999", which a datagram may carry all the same.
FOREIGN == {999}

\* The addresses a node list may name.
ADDRESSES == HOSTS \cup FOREIGN

\* Time is counted in units of 50 ms. DISCOVERY_MESSAGE_INTERVAL (100 ms),
\* DISCOVERY_MESSAGE_TIMEOUT (550 ms) and DISCOVERY_PREELECTION_TIMEOUT
\* (550 ms) of the config, in these units.
DISCOVERY_MESSAGE_INTERVAL == 2
DISCOVERY_MESSAGE_TIMEOUT == 11
DISCOVERY_PREELECTION_TIMEOUT == 11



RECURSIVE BitAnd(_, _)
\* The bitwise AND of two naturals.
BitAnd(a, b) ==
    IF a = 0 \/ b = 0 THEN 0
    ELSE (a % 2) * (b % 2) + 2 * BitAnd(a \div 2, b \div 2)

\* ~m & e for a part m of the mask and a part e of the address (both below
\* 2^31, so that the sign bit of the 32-bit operation stays clear).
HostBits(m, e) == BitAnd(2147483647 - m, e)

\* A getPriorityNumber that adds up the host bits of the four parts.
sumOfParts(address, mask) ==
    HostBits(mask[1], address[1]) + HostBits(mask[2], address[2])
        + HostBits(mask[3], address[3]) + HostBits(mask[4], address[4])

RECURSIVE Shift(_)
\* 2^n for the number n of binary digits of v.toString(2).padStart(8, '0').
Shift(v) == IF v < 256 THEN 256 ELSE 2 * Shift(v \div 2)

\* getPriorityNumber: the host bits of the address, the four parts' binary
\* digits (eight or more each) joined and read as one binary number.
getPriorityNumber(address, mask) ==
    LET b1 == HostBits(mask[1], address[1])
        b2 == HostBits(mask[2], address[2])
        b3 == HostBits(mask[3], address[3])
        b4 == HostBits(mask[4], address[4])
    IN  ((b1 * Shift(b2) + b2) * Shift(b3) + b3) * Shift(b4) + b4

RECURSIVE BitOr(_, _)
\* The bitwise OR of two naturals.
BitOr(a, b) ==
    IF a = 0 THEN b
    ELSE IF b = 0 THEN a
    ELSE (IF a % 2 = 1 \/ b % 2 = 1 THEN 1 ELSE 0) + 2 * BitOr(a \div 2, b \div 2)

\* netInfo.address.includes('127'): the dotted text of four octets holds
\* "127" where an octet is 127.
includes127(address) == \E i \in 1..4 : address[i] = 127

\* getNetworkInfo for the IPv4 interfaces of os.networkInterfaces(): those
\* whose address holds "127" are skipped, every other one gets its broadcast
\* address, part by part (~mask & 0xff) | address.
getNetworkInfo(interfaces) ==
    LET kept == SelectSeq(interfaces, LAMBDA netInfo : ~includes127(netInfo.address))
    IN  [k \in 1..Len(kept) |->
            [address |-> kept[k].address,
             netmask |-> kept[k].netmask,
             broadcast |-> [i \in 1..4 |->
                 BitOr(HostBits(kept[k].netmask[i], 255), kept[k].address[i])]]]

\* The priority of every address, computed from it and the netmask.
PriorityOf == [k \in ADDRESSES |-> getPriorityNumber(IP(k), NETMASK)]

\* PRIORITY of the config of host k.
PRIORITY(k) == PriorityOf[k]

\* getPriorityNumber(a, NETWORK_INFO.netmask) for the address a.
priorityOf(a) == PriorityOf[a]

(***************************************************************************)
(* Sequences                                                               *)
(***************************************************************************)

\* Whether some element of sequence q satisfies Test.
includes(q, x) == \E i \in 1..Len(q) : q[i] = x

\* Array.prototype.findIndex for "element = x": 0-based index, -1 if none.
findIndex(q, x) ==
    IF includes(q, x)
    THEN (CHOOSE i \in 1..Len(q) : q[i] = x /\ \A j \in 1..(i - 1) : q[j] # x) - 1
    ELSE -1

\* Array.prototype.splice(start, 1) on q: removes one element at the 0-based
\* index start; a negative start counts from the end (-1 is the last element).
splice1(q, start) ==
    LET n == Len(q)
        at == IF start < 0 THEN (IF n + start < 0 THEN 0 ELSE n + start) ELSE start
    IN  IF at >= n THEN q
        ELSE SubSeq(q, 1, at) \o SubSeq(q, at + 2, n)

\* The 0-based index of the entry of table t with the given address, -1 if none.
indexOfAddress(t, a) ==
    IF \E i \in 1..Len(t) : t[i].address = a
    THEN (CHOOSE i \in 1..Len(t) :
            t[i].address = a /\ \A j \in 1..(i - 1) : t[j].address # a) - 1
    ELSE -1

hasAddress(t, a) == \E i \in 1..Len(t) : t[i].address = a

\* The addresses a table or node list names.
addresses(t) == {t[i].address : i \in 1..Len(t)}

\* The node list a datagram carries for table t: address and roles only.
nodeInfoOf(t) == [i \in 1..Len(t) |-> [address |-> t[i].address, roles |-> t[i].roles]]

(***************************************************************************)
(* The state of one Discovery instance, as a record s:                     *)
(*   nodes                the membership table #nodes, in array order      *)
(*   messageBroker, gateway   the cached role records (address 0: null)    *)
(*   joinInterval         the JOIN interval #joinInterval                  *)
(*   helloInterval[p]     the HELLO interval #helloInterval[p]             *)
(*   helloTimeout[p]      the timeout #helloTimeout[p] refers to           *)
(*   helloOrphan[p]       pending HELLO timeouts for p that the registry   *)
(*                        no longer refers to (their handle was            *)
(*                        overwritten), oldest first                       *)
(*   preElectionTimeout   the timeout #preElectionTimeout                  *)
(*   electionInterval[p], electionTimeout[p]   likewise for ELECTION       *)
(*   receivedOK           #receivedOK                                      *)
(*   coordinatorInterval[p]   the interval #coordinatorInterval[p]         *)
(*   coordinatorOrphan    running COORDINATOR intervals whose handle was   *)
(*                        overwritten in #coordinatorInterval              *)
(*   coordinatorTimeout[p]    the pending anonymous timeouts of            *)
(*                        #sendCoordinator for p, oldest first             *)
(*   timerList            the pending timeouts in the order they were set: *)
(*                        all have the one duration of 550 ms, and Node    *)
(*                        runs the timeouts of one duration in that order  *)
(* An interval is [live, due, msg]: whether it runs, the time until it     *)
(* sends next, and the datagram's node list fixed when it was set. A       *)
(* timeout is the time until its callback runs, NoTimer when it is not     *)
(* pending (never set, cleared, or run).                                   *)
(***************************************************************************)

ROLE_MB == "MESSAGE_BROKER"
ROLE_GW == "GATEWAY"

NoRole == [address |-> 0, priority |-> 0]
NoTimer == -1
NoInterval == [live |-> FALSE, due |-> 0, msg |-> <<>>]
\* The entry of the timer list for the timeout of a kind set for peer p (0 for
\* the pre-election timeout, which is set for no peer).
Timer(kind, p) == [kind |-> kind, peer |-> p]

\* clearTimeout: the timer list without the timeout.
without(list, timer) == SelectSeq(list, LAMBDA e : e # timer)

\* The timer list without the timeouts of a kind.
withoutKind(list, kind) == SelectSeq(list, LAMBDA e : e.kind # kind)

\* setInterval(..., DISCOVERY_MESSAGE_INTERVAL) for a datagram with list msg.
newInterval(msg) == [live |-> TRUE, due |-> DISCOVERY_MESSAGE_INTERVAL, msg |-> msg]

\* The instance the constructor builds for host self: the table holds self.
constructed(self) ==
    [ nodes |-> << [address |-> self, priority |-> PRIORITY(self), roles |-> <<>>] >>,
      messageBroker |-> NoRole,
      gateway |-> NoRole,
      joinInterval |-> NoInterval,
      helloInterval |-> [p \in HOSTS |-> NoInterval],
      helloTimeout |-> [p \in HOSTS |-> NoTimer],
      helloOrphan |-> [p \in HOSTS |-> <<>>],
      timerList |-> <<>>,
      preElectionTimeout |-> NoTimer,
      electionInterval |-> [p \in HOSTS |-> NoInterval],
      electionTimeout |-> [p \in HOSTS |-> NoTimer],
      receivedOK |-> FALSE,
      coordinatorInterval |-> [p \in HOSTS |-> NoInterval],
      coordinatorOrphan |-> {},
      coordinatorTimeout |-> [p \in HOSTS |-> <<>>] ]

\* A datagram: its type, source and destination hosts, and its node list.
Msg(type, src, dst, nodeInfo) ==
    [type |-> type, src |-> src, dst |-> dst, nodeInfo |-> nodeInfo]

(***************************************************************************)
(* #addNodes and the role cache                                            *)
(***************************************************************************)

\* A merge that pushes every entry of another host, known or not.
appendNodeList(t, self, nodeList, i, newNodes) ==
    [ nodes |-> t \o SelectSeq(
                    [k \in 1..Len(nodeList) |->
                        [address |-> nodeList[k].address,
                         priority |-> priorityOf(nodeList[k].address),
                         roles |-> nodeList[k].roles]],
                    LAMBDA e : e.address # self),
      newNodes |-> TRUE ]

RECURSIVE mergeNodeList(_, _, _, _, _)
\* The forEach of #addNodes over nodeList from element i on: an entry for self
\* replaces the table's entry of self, an unknown address is pushed, a
\* known peer is left as it is. Returns the table and whether a peer was new.
mergeNodeList(t, self, nodeList, i, newNodes) ==
    IF i > Len(nodeList) THEN [nodes |-> t, newNodes |-> newNodes]
    ELSE LET node == nodeList[i] IN
         IF node.address = self
         THEN LET at == indexOfAddress(t, self)
                  own == [address |-> node.address,
                          priority |-> PRIORITY(self),
                          roles |-> node.roles]
              IN  mergeNodeList(
                      IF at >= 0 THEN [t EXCEPT ![at + 1] = own] ELSE t,
                      self, nodeList, i + 1, newNodes)
         ELSE IF ~hasAddress(t, node.address)
         THEN mergeNodeList(
                  Append(t, [address |-> node.address,
                             priority |-> priorityOf(node.address),
                             roles |-> node.roles]),
                  self, nodeList, i + 1, TRUE)
         ELSE mergeNodeList(t, self, nodeList, i + 1, newNodes)

\* nodeList.find: the first entry whose roles include role (0: none).
findByRole(nodeList, role) ==
    IF \E i \in 1..Len(nodeList) : includes(nodeList[i].roles, role)
    THEN CHOOSE i \in 1..Len(nodeList) :
            /\ includes(nodeList[i].roles, role)
            /\ \A j \in 1..(i - 1) : ~includes(nodeList[j].roles, role)
    ELSE 0

roleData(a) == [address |-> a, priority |-> priorityOf(a)]

\* #findRoles with #setMessageBrokerNode and #setGatewayNode: the new cache,
\* whether an own role changed, and whether it threw (one role missing).
findRoles(s, self, nodeList) ==
    LET mb == findByRole(nodeList, ROLE_MB)
        gw == findByRole(nodeList, ROLE_GW)
    IN  IF mb # 0 /\ gw # 0
        THEN LET mbAddr == nodeList[mb].address
                 gwAddr == nodeList[gw].address
                 mbNew == s.messageBroker.address # mbAddr
                 gwNew == s.gateway.address # gwAddr
             IN  [ s |-> [s EXCEPT
                            !.messageBroker = IF mbNew THEN roleData(mbAddr) ELSE @,
                            !.gateway = IF gwNew THEN roleData(gwAddr) ELSE @],
                   ownRoleChanged |-> (mbNew /\ mbAddr = self) \/ (gwNew /\ gwAddr = self),
                   threw |-> FALSE ]
        ELSE IF mb # 0 \/ gw # 0
        THEN [s |-> s, ownRoleChanged |-> FALSE, threw |-> TRUE]
        ELSE [s |-> s, ownRoleChanged |-> FALSE, threw |-> FALSE]

\* #isHighestOrLowestPriority.
isHighestOrLowestPriority(s, nodeList) ==
    IF s.messageBroker # NoRole /\ s.gateway # NoRole
    THEN \E i \in 1..Len(nodeList) :
            LET priority == priorityOf(nodeList[i].address)
            IN  priority > s.messageBroker.priority \/ priority < s.gateway.priority
    ELSE TRUE

\* #addNodes: merges nodeList, reads the roles, arms the pre-election timeout.
\* threw: #findRoles threw after the table was already changed.
addNodes(s, self, nodeList) ==
    LET merged == mergeNodeList(s.nodes, self, nodeList, 1, FALSE)
        s1 == [s EXCEPT !.nodes = merged.nodes]
        found == findRoles(s1, self, nodeList)
        s2 == found.s
    IN  IF found.threw THEN [s |-> s1, threw |-> TRUE]
        ELSE IF found.ownRoleChanged THEN [s |-> s2, threw |-> FALSE]
        ELSE IF merged.newNodes /\ isHighestOrLowestPriority(s2, nodeList)
        THEN [s |-> [s2 EXCEPT
                        !.preElectionTimeout = DISCOVERY_PREELECTION_TIMEOUT,
                        !.timerList = Append(without(@, Timer("preElection", 0)),
                                             Timer("preElection", 0))],
              threw |-> FALSE]
        ELSE [s |-> s2, threw |-> FALSE]

\* Whether #addNodes(nodeList) emits a 'nodes' event: it does in the branch
\* that arms the pre-election timeout, and nowhere else.
addNodesEmitsNodes(s, self, nodeList) ==
    LET merged == mergeNodeList(s.nodes, self, nodeList, 1, FALSE)
        found == findRoles([s EXCEPT !.nodes = merged.nodes], self, nodeList)
    IN  /\ ~found.threw
        /\ ~found.ownRoleChanged
        /\ merged.newNodes
        /\ isHighestOrLowestPriority(found.s, nodeList)

(***************************************************************************)
(* The handlers. Each takes the instance's state s and returns the new     *)
(* state with the datagrams it sent (out); a handler that throws is caught *)
(* by the 'message' listener and keeps what it had changed until then.     *)
(***************************************************************************)

Result(s, out) == [s |-> s, out |-> out]

\* #stopSendingJoin.
stopSendingJoin(s) == [s EXCEPT !.joinInterval = NoInterval]

\* #stopSendingHello: clears and deletes the interval and the timeout of remote.
stopSendingHello(s, remote) ==
    [s EXCEPT !.helloInterval[remote] = NoInterval,
              !.helloTimeout[remote] = NoTimer,
              !.timerList = without(@, Timer("hello", remote))]

\* A #handleJoin that drops every JOIN.
ignoreJoin(s, self, remote) == Result(s, {})

\* #handleJoin: a JOIN from another host that has no HELLO interval adds the
\* host and sets the HELLO interval and its timeout. The new timeout's handle
\* overwrites #helloTimeout[remote]; a pending one it referred to stays pending.
handleJoin(s, self, remote) ==
    IF remote # self /\ ~s.helloInterval[remote].live
    THEN LET s1 == addNodes(s, self, << [address |-> remote, roles |-> <<>>] >>).s
         IN  Result([s1 EXCEPT
                        !.helloInterval[remote] = newInterval(nodeInfoOf(s1.nodes)),
                        !.helloOrphan[remote] =
                            IF s1.helloTimeout[remote] # NoTimer
                            THEN Append(@, s1.helloTimeout[remote]) ELSE @,
                        !.timerList =
                            Append([i \in 1..Len(s1.timerList) |->
                                       IF s1.timerList[i] = Timer("hello", remote)
                                       THEN Timer("helloOrphan", remote)
                                       ELSE s1.timerList[i]],
                                   Timer("hello", remote)),
                        !.helloTimeout[remote] = DISCOVERY_MESSAGE_TIMEOUT],
                    {})
    ELSE Result(s, {})

\* #handleHello.
handleHello(s, self, remote, nodeInfo) ==
    LET s1 == stopSendingJoin(s)
        added == addNodes(s1, self, nodeInfo)
        s2 == added.s
        ack == Msg("ACK HELLO", self, remote, nodeInfoOf(s2.nodes))
    IN  IF added.threw THEN Result(s2, {})
        ELSE Result(IF s2.helloInterval[remote].live
                    THEN stopSendingHello(s2, remote) ELSE s2,
                    {ack})

\* #handleAckHello: the interval is cleared, the timeout is left pending.
handleAckHello(s, self, remote, nodeInfo) ==
    LET s1 == [s EXCEPT !.helloInterval[remote] = NoInterval]
        added == addNodes(s1, self, nodeInfo)
    IN  IF added.threw THEN Result(added.s, {})
        ELSE Result(stopSendingJoin(added.s), {})

\* A #handleAckCoordinator that also removes the sender from the table.
forgetOnAckCoordinator(s, remote) ==
    Result([s EXCEPT !.coordinatorInterval[remote] = NoInterval,
                     !.nodes = SelectSeq(@, LAMBDA e : e.address # remote)], {})

\* #handleAckCoordinator.
handleAckCoordinator(s, remote) ==
    Result([s EXCEPT !.coordinatorInterval[remote] = NoInterval], {})

\* A "remove previous roles" step that removes nothing.
keepRoles(roles) == roles

\* The roles of one entry after the "remove previous roles" step of #setRoles:
\* splice at the index of GATEWAY, then at the index of MESSAGE_BROKER, each
\* done when the index is truthy (not 0; -1, "not found", is truthy).
stripRoles(roles) ==
    LET gatewayIndex == findIndex(roles, ROLE_GW)
        r1 == IF gatewayIndex # 0 THEN splice1(roles, gatewayIndex) ELSE roles
        mbIndex == findIndex(r1, ROLE_MB)
    IN  IF mbIndex # 0 THEN splice1(r1, mbIndex) ELSE r1

RECURSIVE insertByPriority(_, _)
\* e put into the ascending table t before the first entry of higher priority.
insertByPriority(t, e) ==
    IF t = <<>> THEN <<e>>
    ELSE IF e.priority < Head(t).priority THEN <<e>> \o t
    ELSE <<Head(t)>> \o insertByPriority(Tail(t), e)

RECURSIVE sortByPriority(_)
\* nodes.sort((a, b) => (a.priority > b.priority ? 1 : -1)): ascending priority.
sortByPriority(t) ==
    IF t = <<>> THEN <<>>
    ELSE insertByPriority(sortByPriority(Tail(t)), Head(t))

\* #setRoles: strips the old roles, sorts by priority, pushes GATEWAY on the
\* first entry and MESSAGE_BROKER on the entry of self.
setRoles(s, self) ==
    LET stripped == [i \in 1..Len(s.nodes) |->
                        [s.nodes[i] EXCEPT !.roles = stripRoles(@)]]
        sorted == sortByPriority(stripped)
        withGW == [sorted EXCEPT ![1].roles = Append(@, ROLE_GW)]
        hostIndex == indexOfAddress(withGW, self)
    IN  IF hostIndex < 0 THEN [s EXCEPT !.nodes = withGW]
        ELSE [s EXCEPT !.nodes =
                 [withGW EXCEPT ![hostIndex + 1].roles = Append(@, ROLE_MB)]]

RECURSIVE setCoordinatorIntervals(_, _, _, _)
\* The forEach of #sendCoordinator from entry i on: for every peer a new
\* interval is stored in #coordinatorInterval (an interval the entry referred
\* to keeps running, no longer referred to) and an anonymous timeout is set.
setCoordinatorIntervals(s, self, coordinator, i) ==
    IF i > Len(s.nodes) THEN s
    ELSE LET a == s.nodes[i].address
             old == s.coordinatorInterval[a]
         IN  IF a = self THEN setCoordinatorIntervals(s, self, coordinator, i + 1)
             ELSE setCoordinatorIntervals(
                    [s EXCEPT
                        !.coordinatorOrphan =
                            IF old.live
                            THEN @ \cup {[live |-> TRUE, peer |-> a, due |-> old.due,
                                           msg |-> old.msg]}
                            ELSE @,
                        !.coordinatorInterval[a] = newInterval(coordinator),
                        !.coordinatorTimeout[a] = Append(@, DISCOVERY_MESSAGE_TIMEOUT),
                        !.timerList = Append(@, Timer("coordinator", a))],
                    self, coordinator, i + 1)

\* #sendCoordinator.
sendCoordinator(s, self) ==
    LET s1 == setRoles(s, self)
    IN  setCoordinatorIntervals(s1, self, nodeInfoOf(s1.nodes), 1)

\* The entries of the table with a priority above PRIORITY, in table order.
higherPriorities(s, self) ==
    SelectSeq(s.nodes, LAMBDA node : node.priority > PRIORITY(self))

\* #sendElection: for every higher-priority entry the interval and the
\* timeout are cleared if set, and set anew.
sendElection(s, higher) ==
    [s EXCEPT
        !.electionInterval =
            [p \in HOSTS |-> IF hasAddress(higher, p) THEN newInterval(<<>>) ELSE @[p]],
        !.electionTimeout =
            [p \in HOSTS |-> IF hasAddress(higher, p)
                             THEN DISCOVERY_MESSAGE_TIMEOUT ELSE @[p]],
        !.timerList =
            SelectSeq(@, LAMBDA e : ~(e.kind = "election" /\ hasAddress(higher, e.peer)))
                \o [i \in 1..Len(higher) |-> Timer("election", higher[i].address)]]

\* A #startElection that starts nothing.
neverElect(s, self) == s

\* #startElection.
startElection(s, self) ==
    LET s1 == [s EXCEPT !.receivedOK = FALSE]
        higher == higherPriorities(s1, self)
    IN  IF Len(higher) > 0 THEN sendElection(s1, higher)
        ELSE sendCoordinator(s1, self)

\* An election timeout that removes the first entry of the table instead of
\* the entry of h.
evictFirst(s, self, h) ==
    LET s1 == [s EXCEPT
                 !.electionInterval[h] = NoInterval,
                 !.electionTimeout[h] = NoTimer,
                 !.timerList = without(@, Timer("election", h)),
                 !.nodes = splice1(@, 0)]
    IN  IF ~s1.receivedOK THEN sendCoordinator(s1, self) ELSE s1

\* The callback of #electionTimeout[h]: clears the interval, removes h from
\* the table (splice at the index found, -1 if h is not there) and, if no OK
\* was received, sends COORDINATOR.
electionTimedOut(s, self, h) ==
    LET s1 == [s EXCEPT
                 !.electionInterval[h] = NoInterval,
                 !.electionTimeout[h] = NoTimer,
                 !.timerList = without(@, Timer("election", h)),
                 !.nodes = splice1(@, indexOfAddress(@, h))]
    IN  IF ~s1.receivedOK THEN sendCoordinator(s1, self) ELSE s1

\* A #stopElection that clears the election timers and leaves the
\* pre-election timeout pending.
stopElectionOnly(s) ==
    [s EXCEPT !.electionInterval = [p \in HOSTS |-> NoInterval],
              !.electionTimeout = [p \in HOSTS |-> NoTimer],
              !.timerList = withoutKind(@, "election")]

\* #stopElection.
stopElection(s) ==
    [s EXCEPT !.preElectionTimeout = NoTimer,
              !.electionInterval = [p \in HOSTS |-> NoInterval],
              !.electionTimeout = [p \in HOSTS |-> NoTimer],
              !.timerList = withoutKind(withoutKind(@, "preElection"), "election")]

\* A #handleElection that answers every ELECTION with OK.
answerElection(s, self, remote) == Result(s, {Msg("OK", self, remote, <<>>)})

\* #handleElection: throws for a sender of no lower priority, else sends OK.
handleElection(s, self, remote) ==
    IF PRIORITY(self) <= priorityOf(remote) THEN Result(s, {})
    ELSE Result(s, {Msg("OK", self, remote, <<>>)})

\* #handleOK.
handleOK(s, remote) ==
    LET s1 == [s EXCEPT !.receivedOK = TRUE]
    IN  Result(IF s1.electionInterval[remote].live THEN stopElection(s1) ELSE s1, {})

\* An #updateRoles that pushes every entry listed, known or not.
pushRoles(t, nodeData, i) ==
    t \o [k \in 1..Len(nodeData) |->
            [address |-> nodeData[k].address,
             priority |-> priorityOf(nodeData[k].address),
             roles |-> nodeData[k].roles]]

RECURSIVE updateRoles(_, _, _)
\* #updateRoles from element i of nodeData on: a known address takes the
\* roles listed, an unknown one is pushed.
updateRoles(t, nodeData, i) ==
    IF i > Len(nodeData) THEN t
    ELSE LET node == nodeData[i]
             index == indexOfAddress(t, node.address)
         IN  updateRoles(
                IF index >= 0 THEN [t EXCEPT ![index + 1].roles = node.roles]
                ELSE Append(t, [address |-> node.address,
                                priority |-> priorityOf(node.address),
                                roles |-> node.roles]),
                nodeData, i + 1)

\* A #handleCoordinator that accepts a COORDINATOR from any sender.
acceptsAny(self, remote) == TRUE

\* Whether #handleCoordinator accepts a COORDINATOR from remote.
acceptsCoordinator(self, remote) == ~(priorityOf(remote) <= PRIORITY(self))

\* A #handleCoordinator that acknowledges the COORDINATOR and leaves the
\* table as it is.
acknowledgeOnly(s, self, remote, nodeInfo) ==
    IF priorityOf(remote) <= PRIORITY(self) THEN Result(s, {})
    ELSE Result(s, {Msg("ACK COORDINATOR", self, remote, nodeInfo)})

\* #handleCoordinator.
handleCoordinator(s, self, remote, nodeInfo) ==
    IF ~acceptsCoordinator(self, remote) THEN Result(s, {})
    ELSE LET s1 == stopElection(s)
         IN  Result([s1 EXCEPT !.nodes = updateRoles(@, nodeInfo, 1)],
                    {Msg("ACK COORDINATOR", self, remote, nodeInfo)})

\* The switch of the 'message' listener.
handleMessage(s, self, m) ==
    CASE m.type = "JOIN" -> handleJoin(s, self, m.src)
      [] m.type = "HELLO" -> handleHello(s, self, m.src, m.nodeInfo)
      [] m.type = "ACK HELLO" -> handleAckHello(s, self, m.src, m.nodeInfo)
      [] m.type = "ACK COORDINATOR" -> handleAckCoordinator(s, m.src)
      [] m.type = "ELECTION" -> handleElection(s, self, m.src)
      [] m.type = "OK" -> handleOK(s, m.src)
      [] m.type = "COORDINATOR" -> handleCoordinator(s, self, m.src, m.nodeInfo)

(***************************************************************************)
(* The timer callbacks, and the passing of time on one host.               *)
(***************************************************************************)

\* The callback of a HELLO timeout for p: clears and deletes #helloInterval[p].
helloTimedOut(s, p) == [s EXCEPT !.helloInterval[p] = NoInterval]

\* The callback of a timeout of #sendCoordinator for p: clears and deletes
\* #coordinatorInterval[p].
coordinatorTimedOut(s, p) == [s EXCEPT !.coordinatorInterval[p] = NoInterval]

tickDown(x) == IF x > 0 THEN x - 1 ELSE x
intervalDown(iv) == IF iv.live THEN [iv EXCEPT !.due = tickDown(@)] ELSE iv
seqDown(q) == [i \in 1..Len(q) |-> tickDown(q[i])]

\* One unit of time passes for every timer of the instance.
elapse(s) ==
    [ nodes |-> s.nodes, messageBroker |-> s.messageBroker, gateway |-> s.gateway,
      receivedOK |-> s.receivedOK,
      joinInterval |-> intervalDown(s.joinInterval),
      helloInterval |-> [p \in HOSTS |-> intervalDown(s.helloInterval[p])],
      helloTimeout |-> [p \in HOSTS |-> tickDown(s.helloTimeout[p])],
      helloOrphan |-> [p \in HOSTS |-> seqDown(s.helloOrphan[p])],
      timerList |-> s.timerList,
      preElectionTimeout |-> tickDown(s.preElectionTimeout),
      electionInterval |-> [p \in HOSTS |-> intervalDown(s.electionInterval[p])],
      electionTimeout |-> [p \in HOSTS |-> tickDown(s.electionTimeout[p])],
      coordinatorInterval |-> [p \in HOSTS |-> intervalDown(s.coordinatorInterval[p])],
      coordinatorOrphan |-> {intervalDown(o) : o \in s.coordinatorOrphan},
      coordinatorTimeout |-> [p \in HOSTS |-> seqDown(s.coordinatorTimeout[p])] ]

isDue(iv) == iv.live /\ iv.due = 0

\* Whether a timer of the instance is due: time does not pass before it ran.
somethingDue(s) ==
    \/ isDue(s.joinInterval)
    \/ s.preElectionTimeout = 0
    \/ \E o \in s.coordinatorOrphan : o.due = 0
    \/ \E p \in HOSTS :
          \/ isDue(s.helloInterval[p]) \/ isDue(s.electionInterval[p])
          \/ isDue(s.coordinatorInterval[p])
          \/ s.helloTimeout[p] = 0 \/ s.electionTimeout[p] = 0
          \/ includes(s.helloOrphan[p], 0) \/ includes(s.coordinatorTimeout[p], 0)

(***************************************************************************)
(* The parser. The text of a datagram is held as its pieces between single *)
(* spaces: a piece is a word or a JSON text, and a JSON text written with  *)
(* a space in it (spaced) is cut in two by split(' '). A JSON text is held *)
(* as the value JSON.parse makes of it (doc).                              *)
(***************************************************************************)

\* What JSON.parse makes of a text that is not JSON: it throws.
SyntaxError == [kind |-> "syntax error", items |-> <<>>]

\* A piece that is the word w; no word of a datagram is JSON.
Word(w) == [word |-> w, doc |-> SyntaxError, spaced |-> FALSE]

\* A piece that is the JSON text of the value doc.
Json(doc, spaced) == [word |-> "json", doc |-> doc, spaced |-> spaced]

\* One half of a JSON text that was cut in two.
Fragment == Word("{")

RECURSIVE pieces(_)
\* The pieces of a text, a text with a space in it cut at the space.
pieces(msg) ==
    IF msg = <<>> THEN <<>>
    ELSE (IF Head(msg).spaced THEN <<Fragment, Fragment>>
          ELSE <<Head(msg)>>) \o pieces(Tail(msg))

\* msg.toString().split(' '): the empty text splits into one empty string.
split(msg) == IF msg = <<>> THEN <<Word("")>> ELSE pieces(msg)

\* msgSplit[k] is a string that is not empty (the source's index k counts from 0).
has(msgSplit, k) == k < Len(msgSplit) /\ msgSplit[k + 1].word # ""

\* JSON.parse(msgSplit[k]); JSON.parse(undefined) throws a SyntaxError too.
docAt(msgSplit, k) == IF k < Len(msgSplit) THEN msgSplit[k + 1].doc ELSE SyntaxError

\* A property that a value does not have.
undefinedAddress == [kind |-> "undefined", text |-> 0]
undefinedRoles == [kind |-> "undefined", items |-> <<>>]

\* isRole.
isRole(role) == role = ROLE_MB \/ role = ROLE_GW

\* isMessageNodeInfo; reading a property of null throws a TypeError instead.
isMessageNodeInfo(nodeInfo) ==
    /\ nodeInfo.kind # "null"
    /\ nodeInfo.address.kind # "undefined"
    /\ nodeInfo.roles.kind # "undefined"
    /\ nodeInfo.address.kind = "string"
    /\ nodeInfo.roles.kind = "array"
    /\ \A i \in 1..Len(nodeInfo.roles.items) : isRole(nodeInfo.roles.items[i])

\* What a parse function returns, or that it threw.
Parsed(type, responseType, nodeInfo) ==
    [failed |-> FALSE, type |-> type, responseType |-> responseType, nodeInfo |-> nodeInfo]
Thrown == [failed |-> TRUE, type |-> "INVALID", responseType |-> "", nodeInfo |-> <<>>]

\* #parseMessageNodeInfo, on the value JSON.parse made of the string.
parseMessageNodeInfo(doc, type, responseType) ==
    IF doc.kind = "syntax error" THEN Thrown
    ELSE IF doc.kind # "array" THEN Thrown
    ELSE IF \E i \in 1..Len(doc.items) : ~isMessageNodeInfo(doc.items[i]) THEN Thrown
    ELSE Parsed(type, responseType,
                [i \in 1..Len(doc.items) |->
                    [address |-> doc.items[i].address.text,
                     roles |-> doc.items[i].roles.items]])

\* #parseType.
parseType(str) ==
    IF str \in {"JOIN", "HELLO", "ACK", "ELECTION", "OK", "COORDINATOR", "ASSIGN"}
    THEN str ELSE "INVALID"

\* A #parseHello that takes a missing node list for an empty one.
parseHelloLenient(msgSplit, type) ==
    IF ~has(msgSplit, 1) THEN Parsed(type, "", <<>>)
    ELSE parseMessageNodeInfo(docAt(msgSplit, 1), type, "")

\* #parseHello.
parseHello(msgSplit, type) ==
    IF ~has(msgSplit, 1) THEN Thrown
    ELSE parseMessageNodeInfo(docAt(msgSplit, 1), type, "")

\* #parseAckHello.
parseAckHello(msgSplit, type, responseType) ==
    IF ~has(msgSplit, 2) THEN Thrown
    ELSE parseMessageNodeInfo(docAt(msgSplit, 2), type, responseType)

\* #parseAckCoordinator.
parseAckCoordinator(msgSplit, type, responseType) ==
    IF ~has(msgSplit, 2) THEN Thrown
    ELSE parseMessageNodeInfo(docAt(msgSplit, 2), type, responseType)

\* #parseAck: an ACK ASSIGN runs out of response types.
parseAck(msgSplit, type) ==
    IF ~has(msgSplit, 1) THEN Thrown
    ELSE LET responseType ==
                 IF msgSplit[2].word \in {"HELLO", "COORDINATOR", "ASSIGN"}
                 THEN msgSplit[2].word ELSE "INVALID"
         IN  IF responseType = "INVALID" THEN Thrown
             ELSE IF responseType = "HELLO"
             THEN parseAckHello(msgSplit, type, responseType)
             ELSE IF responseType = "COORDINATOR"
             THEN parseAckCoordinator(msgSplit, type, responseType)
             ELSE Thrown

\* #parseCoordinator: the node list is parsed, there or not.
parseCoordinator(msgSplit, type) ==
    parseMessageNodeInfo(docAt(msgSplit, 1), type, "")

\* #parseDiscoveryMessage.
parseDiscoveryMessage(msg) ==
    LET msgSplit == split(msg)
        type == parseType(msgSplit[1].word)
    IN  IF type = "INVALID" THEN Thrown
        ELSE IF type = "HELLO" THEN parseHello(msgSplit, type)
        ELSE IF type = "ACK" THEN parseAck(msgSplit, type)
        ELSE IF type = "COORDINATOR" THEN parseCoordinator(msgSplit, type)
        ELSE Parsed(type, "", <<>>)

\* validAddress, on the four numbers of a dotted address.
validAddress(address) == \A i \in 1..4 : address[i] <= 255

\* The type #handleAck goes by: the response type of the ACK.
handledType(parsedMessage) ==
    IF parsedMessage.type # "ACK" THEN parsedMessage.type
    ELSE IF parsedMessage.responseType = "HELLO" THEN "ACK HELLO"
    ELSE "ACK COORDINATOR"

\* The 'message' listener: a datagram that does not parse is logged and
\* dropped, an ASSIGN is logged, every other one goes to its handler.
onMessage(s, self, msg, remote) ==
    LET parsedMessage == parseDiscoveryMessage(msg)
    IN  IF parsedMessage.failed THEN Result(s, {})
        ELSE IF parsedMessage.type = "ASSIGN" THEN Result(s, {})
        ELSE handleMessage(s, self,
                 Msg(handledType(parsedMessage), remote, self, parsedMessage.nodeInfo))

(***************************************************************************)
(* The Consensus service: one instance per member, as a record s with the  *)
(* fields status, term, leader, nodes, electionTimeout and electionState.  *)
(***************************************************************************)

\* The clusters the Consensus service is run in: of two and of three hosts.
Memberships == {{1, 2}, {1, 2, 3}}

\* `#leader: NodeState | null = null`.
NoLeader == [address |-> 0, status |-> "FOLLOWER", term |-> 0]

\* A candidate #electionState has no entry for.
NoElection ==
    [candidate |-> 0, term |-> 0, votes |-> <<>>, denied |-> <<>>, expired |-> FALSE]

\* `#electionTimeout: NodeJS.Timeout | null = null`; a timeout that is set
\* holds the myState and the electionState its callback has captured.
NoElectionTimeout == [pending |-> FALSE, myState |-> NoLeader, electionState |-> NoElection]

\* getSimpleState.
getSimpleState(s, self) == [address |-> self, status |-> s.status, term |-> s.term]

\* An election message: its type, the state of its sender and the state of
\* the election it is about.
ElectionMessage(messageType, nodeState, electionState) ==
    [messageType |-> messageType, nodeState |-> nodeState, electionState |-> electionState]

\* Consensus.#startElection: the node turns candidate of the next term and
\* sets the timeout that sends VOTEME.
consensusStartElection(s, self) ==
    LET s1 == [s EXCEPT !.status = "CANDIDATE", !.term = @ + 1]
    IN  [s1 EXCEPT !.electionTimeout =
            [pending |-> TRUE,
             myState |-> getSimpleState(s1, self),
             electionState |-> [candidate |-> self, term |-> s1.term,
                                votes |-> <<self>>, denied |-> <<>>,
                                expired |-> FALSE]]]

\* The constructor of Consensus on host self in the cluster m: a host of the
\* cluster starts an election, another host runs no instance.
Consensus(self, m) ==
    LET s == [status |-> "FOLLOWER", term |-> 0, leader |-> NoLeader,
              nodes |-> [i \in 1..Cardinality(m) |-> i],
              electionTimeout |-> NoElectionTimeout,
              electionState |-> [c \in HOSTS |-> NoElection]]
    IN  IF self \in m THEN consensusStartElection(s, self) ELSE s

\* Math.ceil(n / 2).
ceilHalf(n) == (n + 1) \div 2

\* A node that takes the OK of one other node for enough votes.
leadsOnAnyVote(votes, nodes) == Len(votes) > 1

\* `electionState.votes.length > Math.ceil(this.#nodes.length / 2)`.
enoughVotes(votes, nodes) == Len(votes) > ceilHalf(Len(nodes))

\* The first part of Consensus.#handleElection: a message of a later term.
laterTerm(s, self, messageType, nodeState, electionState) ==
    IF nodeState.term > s.term
    THEN [s |-> [s EXCEPT !.term = nodeState.term,
                          !.status = "FOLLOWER",
                          !.electionState[electionState.candidate] =
                              [electionState EXCEPT !.expired = TRUE]],
          out |-> IF messageType = "VOTEME"
                  THEN <<ElectionMessage("OK", getSimpleState(s, self),
                            [electionState EXCEPT !.votes = Append(@, self)])>>
                  ELSE <<>>]
    ELSE [s |-> s, out |-> <<>>]

\* The switch of Consensus.#handleElection.
byMessageType(s, self, messageType, nodeState, electionState) ==
    LET candidate == electionState.candidate IN
    CASE messageType = "VOTEME" ->
            IF ~includes(electionState.votes, self) /\ s.status # "LEADER"
            THEN LET s1 == [s EXCEPT !.electionState[candidate] =
                               [electionState EXCEPT !.votes = Append(@, self)]]
                 IN  [s |-> s1,
                      out |-> <<ElectionMessage("OK", getSimpleState(s1, self),
                                                s1.electionState[candidate])>>]
            ELSE [s |-> s, out |-> <<>>]
      [] messageType = "OK" ->
            IF electionState.term < s.term THEN [s |-> s, out |-> <<>>]
            ELSE LET s1 == [s EXCEPT !.electionState[candidate] = electionState]
                 IN  IF candidate = self /\ enoughVotes(electionState.votes, s1.nodes)
                     THEN LET s2 == [s1 EXCEPT !.status = "LEADER"]
                              myState == getSimpleState(s2, self)
                          IN  [s |-> [s2 EXCEPT !.leader = myState],
                               out |-> <<ElectionMessage("LEADER", myState,
                                                         s2.electionState[candidate])>>]
                     ELSE [s |-> s1, out |-> <<>>]
      [] messageType = "LEADER" ->
            IF electionState.term < s.term \/ nodeState.address = s.leader.address
            THEN [s |-> s, out |-> <<>>]
            ELSE [s |-> [s EXCEPT !.status = "FOLLOWER",
                                  !.term = nodeState.term,
                                  !.leader = nodeState],
                  out |-> <<>>]
      [] messageType = "DENIED" ->
            IF electionState.term < s.term THEN [s |-> s, out |-> <<>>]
            ELSE [s |-> [s EXCEPT !.electionState[candidate] = electionState],
                  out |-> <<>>]

\* Consensus.#handleElection.
consensusHandleElection(s, self, messageType, nodeState, electionState) ==
    LET first == laterTerm(s, self, messageType, nodeState, electionState)
        second == byMessageType(first.s, self, messageType, nodeState, electionState)
    IN  [s |-> second.s, out |-> first.out \o second.out]

(***************************************************************************)
(* The Storage service: the documents, the counter of document ids, and    *)
(* the document file.                                                      *)
(***************************************************************************)

\* The documents a Storage instance holds in a run.
MaxDocuments == 11

\* The longest document list a run starts with on the disk.
MaxStored == 3

RECURSIVE toString10(_)
\* (n).toString(10), as the sequence of its digits.
toString10(n) == IF n < 10 THEN <<n>> ELSE Append(toString10(n \div 10), n % 10)

RECURSIVE parseInt10(_)
\* parseInt(str, 10) of a string of digits.
parseInt10(str) ==
    IF Len(str) = 1 THEN str[1]
    ELSE 10 * parseInt10(SubSeq(str, 1, Len(str) - 1)) + str[Len(str)]

\* The document createDocument makes.
Document(documentID, documentName) ==
    [documentID |-> documentID, documentName |-> documentName]

\* readFileSync finds no file.
NoFile == [kind |-> "ENOENT", documents |-> <<>>]

\* The file holds what is not the JSON of an array of documents.
Corrupt == [kind |-> "not an array", documents |-> <<>>]

\* The file #writeDocuments writes: the JSON of the documents.
writeDocuments(documents) == [kind |-> "array", documents |-> documents]

\* The files a run may start with: none, a corrupt one, and the files that
\* earlier runs have written, of the documents "0", "1", ... in this order.
Files ==
    {NoFile, Corrupt}
    \cup {writeDocuments([i \in 1..k |-> Document(toString10(i - 1), "a")]) :
            k \in 0..MaxStored}

\* What the constructor makes of the file: #parseDocumentData, or the empty
\* list where reading or parsing has thrown.
parseDocumentData(f) == IF f.kind = "array" THEN f.documents ELSE <<>>

\* A counter that starts at 0 whatever was loaded.
countFromZero(documents) == 0

\* `Math.max(...documents.map(parseInt)) + 1`, then `maxID > 0 ? maxID : 0`:
\* Math.max() of no numbers is -Infinity, and -Infinity + 1 is not above 0.
documentIDCountOf(documents) ==
    IF documents = <<>> THEN 0
    ELSE LET ids == {parseInt10(documents[i].documentID) : i \in 1..Len(documents)}
             maxID == (CHOOSE x \in ids : \A y \in ids : y <= x) + 1
         IN  IF maxID > 0 THEN maxID ELSE 0

\* The constructor of Storage, with the file f on the disk.
Storage(f) ==
    [documents |-> parseDocumentData(f),
     documentIDCount |-> documentIDCountOf(parseDocumentData(f)),
     initialized |-> TRUE]

\* The file the constructor leaves: it writes an empty list where none was.
constructedFile(f) == IF f.kind = "ENOENT" THEN writeDocuments(<<>>) ELSE f

(***************************************************************************)
(* The cluster: one Discovery instance per host, and the network.          *)
(*                                                                         *)
(* Scheduling. Every handler and every timer callback runs to completion   *)
(* on the one event loop of its host, so each is one step. Timers run on   *)
(* a common clock: time passes (Advance) only when no timer is due and no  *)
(* datagram is on the wire, so a datagram arrives within the instant it    *)
(* was sent. A datagram to a host that is not listening is lost.           *)
(***************************************************************************)

VARIABLES
    up,                  \* per host: "init" (constructed), "up" (listening), "down" (silent)
    nodes, messageBroker, gateway, joinInterval,
    helloInterval, helloTimeout, helloOrphan, timerList,
    preElectionTimeout, electionInterval, electionTimeout, receivedOK,
    coordinatorInterval, coordinatorOrphan, coordinatorTimeout,
    net,                 \* the datagrams on the wire
    clock,               \* the time, in units, modulo 2
    leader,              \* per host: it ran #sendCoordinator and has accepted no COORDINATOR since
    heardHello,          \* per host: it has handled a HELLO or an ACK HELLO
    asked,               \* per host: the peers its last #startElection sent ELECTION to
    silent,              \* per host: those of them that were not listening at that time
    okFrom,              \* per host: the peers whose OK it has handled since then
    acked,               \* per host: the peers it has sent ACK COORDINATOR to
    datagram,            \* the raw datagram the instance under test has received
    parsed,              \* what #parseDiscoveryMessage made of it
    receiver,            \* the instance under test (an instance of host 1)
    replies,             \* the datagrams it sent on handling the datagram
    received,            \* the number of datagrams it has received
    messaging,           \* server.ts: the Messaging instance of host 1, or none
    snapshot,            \* the node list of the last 'newRoles' event it handled
    instances,           \* the number of Messaging instances constructed
    closed,              \* the number of calls of messaging.close()
    closing,             \* the brokers whose server.close() has not completed yet
    consensus,           \* per member: its Consensus instance
    members,             \* the hosts that run a Consensus instance
    room,                \* the 'consensus' messages on their way to a member
    granted,             \* the OK messages the members have sent
    storage,             \* the Storage instance of host 1
    file,                \* the document file on its disk
    created,             \* the documents createDocument has returned, in order
    netInfo,             \* an IPv4 interface of the machine: its address and netmask
    networkInfo,         \* what getNetworkInfo returns for it
    priorities           \* the addresses getPriorityNumber was called for, with the results

local == <<nodes, messageBroker, gateway, joinInterval,
           helloInterval, helloTimeout, helloOrphan, timerList,
           preElectionTimeout, electionInterval, electionTimeout, receivedOK,
           coordinatorInterval, coordinatorOrphan, coordinatorTimeout>>

ghost == <<leader, heardHello, asked, silent, okFrom, acked>>

\* The variables of the parts that are run on their own, outside the cluster.
listener == <<datagram, parsed, receiver, replies, received>>
controller == <<messaging, snapshot, instances, closed, closing>>
voting == <<consensus, members, room, granted>>
store == <<storage, file, created>>
numbering == <<netInfo, networkInfo, priorities>>
aside == <<listener, controller, voting, store, numbering>>

\* The variables of the cluster.
cluster == <<up, local, net, clock, ghost>>

vars == <<up, local, net, clock, ghost, aside>>

\* The state of the instance of host n.
Local(n) ==
    [ nodes |-> nodes[n], messageBroker |-> messageBroker[n], gateway |-> gateway[n],
      joinInterval |-> joinInterval[n],
      helloInterval |-> helloInterval[n], helloTimeout |-> helloTimeout[n],
      helloOrphan |-> helloOrphan[n], timerList |-> timerList[n],
      preElectionTimeout |-> preElectionTimeout[n],
      electionInterval |-> electionInterval[n], electionTimeout |-> electionTimeout[n],
      receivedOK |-> receivedOK[n],
      coordinatorInterval |-> coordinatorInterval[n],
      coordinatorOrphan |-> coordinatorOrphan[n],
      coordinatorTimeout |-> coordinatorTimeout[n] ]

\* The instances take the states f[n].
StoreAll(f) ==
    /\ nodes' = [n \in HOSTS |-> f[n].nodes]
    /\ messageBroker' = [n \in HOSTS |-> f[n].messageBroker]
    /\ gateway' = [n \in HOSTS |-> f[n].gateway]
    /\ joinInterval' = [n \in HOSTS |-> f[n].joinInterval]
    /\ helloInterval' = [n \in HOSTS |-> f[n].helloInterval]
    /\ helloTimeout' = [n \in HOSTS |-> f[n].helloTimeout]
    /\ helloOrphan' = [n \in HOSTS |-> f[n].helloOrphan]
    /\ timerList' = [n \in HOSTS |-> f[n].timerList]
    /\ preElectionTimeout' = [n \in HOSTS |-> f[n].preElectionTimeout]
    /\ electionInterval' = [n \in HOSTS |-> f[n].electionInterval]
    /\ electionTimeout' = [n \in HOSTS |-> f[n].electionTimeout]
    /\ receivedOK' = [n \in HOSTS |-> f[n].receivedOK]
    /\ coordinatorInterval' = [n \in HOSTS |-> f[n].coordinatorInterval]
    /\ coordinatorOrphan' = [n \in HOSTS |-> f[n].coordinatorOrphan]
    /\ coordinatorTimeout' = [n \in HOSTS |-> f[n].coordinatorTimeout]

\* The instance of host n takes the state s.
Store(n, s) ==
    /\ nodes' = [nodes EXCEPT ![n] = s.nodes]
    /\ messageBroker' = [messageBroker EXCEPT ![n] = s.messageBroker]
    /\ gateway' = [gateway EXCEPT ![n] = s.gateway]
    /\ joinInterval' = [joinInterval EXCEPT ![n] = s.joinInterval]
    /\ helloInterval' = [helloInterval EXCEPT ![n] = s.helloInterval]
    /\ helloTimeout' = [helloTimeout EXCEPT ![n] = s.helloTimeout]
    /\ helloOrphan' = [helloOrphan EXCEPT ![n] = s.helloOrphan]
    /\ timerList' = [timerList EXCEPT ![n] = s.timerList]
    /\ preElectionTimeout' = [preElectionTimeout EXCEPT ![n] = s.preElectionTimeout]
    /\ electionInterval' = [electionInterval EXCEPT ![n] = s.electionInterval]
    /\ electionTimeout' = [electionTimeout EXCEPT ![n] = s.electionTimeout]
    /\ receivedOK' = [receivedOK EXCEPT ![n] = s.receivedOK]
    /\ coordinatorInterval' = [coordinatorInterval EXCEPT ![n] = s.coordinatorInterval]
    /\ coordinatorOrphan' = [coordinatorOrphan EXCEPT ![n] = s.coordinatorOrphan]
    /\ coordinatorTimeout' = [coordinatorTimeout EXCEPT ![n] = s.coordinatorTimeout]

\* The bound of the model on the state of one instance.
WithinBounds(s) == \A i \in 1..Len(s.nodes) : Len(s.nodes[i].roles) <= MaxRoles

\* socket.send: a datagram to a host that is not listening is lost.
Sent(msgs) == {m \in msgs : up[m.dst] = "up"}

\* No datagram is on the wire.
Quiet == net = {}

\* Host k has something to do in this instant: a timer of it is due or a
\* datagram for it is on the wire.
Busy(k) == up[k] = "up" /\ (somethingDue(Local(k)) \/ \E m \in net : m.dst = k)

\* Nothing is left to do in this instant.
Idle == \A k \in HOSTS : ~Busy(k)

\* Within one instant the event loops run one after the other, the host of
\* the lowest address first; the events of one host run in any order.
Turn(n) == \A k \in HOSTS : k < n => ~Busy(k)

\* `let messaging: Messaging | null = null`.
NoMessaging ==
    [live |-> FALSE, open |-> FALSE, broker |-> FALSE, brokerAddress |-> 0,
     id |-> 0, rooms |-> {}]

\* new Messaging(broker, brokerAddress), the id-th instance constructed: a
\* server, or a client connected to the broker.
Messaging(broker, brokerAddress, id) ==
    [live |-> TRUE, open |-> TRUE, broker |-> broker, brokerAddress |-> brokerAddress,
     id |-> id, rooms |-> {}]

\* The instance that is run on its own is constructed and listening, and has
\* received nothing.
Listens ==
    /\ datagram = <<>>
    /\ parsed = Thrown
    /\ receiver = [constructed(1) EXCEPT !.joinInterval = newInterval(<<>>)]
    /\ replies = {}
    /\ received = 0

\* The role controller has started nothing.
Controls ==
    /\ messaging = NoMessaging
    /\ snapshot = <<>>
    /\ instances = 0
    /\ closed = 0
    /\ closing = {}

\* The hosts of m have constructed their Consensus instances.
Elects(m) ==
    /\ members = m
    /\ consensus = [n \in HOSTS |-> Consensus(n, m)]
    /\ room = {}
    /\ granted = {}

\* Host 1 has constructed its Storage instance, with f on its disk.
Stores(f) ==
    /\ file = constructedFile(f)
    /\ storage = Storage(f)
    /\ created = <<>>

\* The parts that are run on their own, each as its construction leaves it.
\* getNetworkInfo has run for the interface netInfo; no priority is computed.
Numbers(i) ==
    /\ netInfo = i
    /\ networkInfo = getNetworkInfo(<<i>>)
    /\ priorities = {}

\* The interface of host 1.
Interface == [address |-> IP(1), netmask |-> NETMASK]

Apart == Listens /\ Controls /\ Elects(HOSTS) /\ Stores(NoFile) /\ Numbers(Interface)

\* After construction: every host holds its own entry, nothing is running.
Booted ==
    /\ up = [n \in HOSTS |-> "init"]
    /\ nodes = [n \in HOSTS |-> constructed(n).nodes]
    /\ messageBroker = [n \in HOSTS |-> constructed(n).messageBroker]
    /\ gateway = [n \in HOSTS |-> constructed(n).gateway]
    /\ joinInterval = [n \in HOSTS |-> constructed(n).joinInterval]
    /\ helloInterval = [n \in HOSTS |-> constructed(n).helloInterval]
    /\ helloTimeout = [n \in HOSTS |-> constructed(n).helloTimeout]
    /\ helloOrphan = [n \in HOSTS |-> constructed(n).helloOrphan]
    /\ timerList = [n \in HOSTS |-> constructed(n).timerList]
    /\ preElectionTimeout = [n \in HOSTS |-> constructed(n).preElectionTimeout]
    /\ electionInterval = [n \in HOSTS |-> constructed(n).electionInterval]
    /\ electionTimeout = [n \in HOSTS |-> constructed(n).electionTimeout]
    /\ receivedOK = [n \in HOSTS |-> constructed(n).receivedOK]
    /\ coordinatorInterval = [n \in HOSTS |-> constructed(n).coordinatorInterval]
    /\ coordinatorOrphan = [n \in HOSTS |-> constructed(n).coordinatorOrphan]
    /\ coordinatorTimeout = [n \in HOSTS |-> constructed(n).coordinatorTimeout]
    /\ net = {}
    /\ clock = 0
    /\ leader = [n \in HOSTS |-> FALSE]
    /\ heardHello = [n \in HOSTS |-> FALSE]
    /\ asked = [n \in HOSTS |-> {}]
    /\ silent = [n \in HOSTS |-> {}]
    /\ okFrom = [n \in HOSTS |-> {}]
    /\ acked = [n \in HOSTS |-> {}]

\* The state of the cluster after construction; nothing is run on its own.
Init == Booted /\ Apart

\* The 'listening' handler: the socket is bound, the JOIN interval is set.
Listening(n) ==
    /\ up[n] = "init"
    /\ Idle
    /\ UNCHANGED <<clock, aside>>
    /\ up' = [up EXCEPT ![n] = "up"]
    /\ joinInterval' = [joinInterval EXCEPT ![n] = newInterval(<<>>)]
    /\ UNCHANGED <<nodes, messageBroker, gateway, helloInterval, helloTimeout,
                   helloOrphan, timerList, preElectionTimeout, electionInterval,
                   electionTimeout, receivedOK, coordinatorInterval,
                   coordinatorOrphan, coordinatorTimeout>>
    /\ UNCHANGED <<net, ghost>>

\* Host n falls silent: its process is gone, and its state with it.
FallsSilent(n) ==
    /\ up[n] = "up"
    /\ Idle
    /\ UNCHANGED <<clock, aside>>
    /\ up' = [up EXCEPT ![n] = "down"]
    /\ \E s \in {constructed(n)} : Store(n, s)
    /\ net' = {m \in net : m.dst # n}
    /\ leader' = [leader EXCEPT ![n] = FALSE]
    /\ heardHello' = [heardHello EXCEPT ![n] = FALSE]
    /\ asked' = [asked EXCEPT ![n] = {}]
    /\ silent' = [silent EXCEPT ![n] = {}]
    /\ okFrom' = [okFrom EXCEPT ![n] = {}]
    /\ acked' = [acked EXCEPT ![n] = {}]

\* One of the hosts that may fall silent does.
Crash(n) == n \in CRASHABLE /\ FallsSilent(n)

\* One unit of time passes.
Advance ==
    /\ Idle
    /\ \E f \in {[n \in HOSTS |-> IF up[n] = "up" THEN elapse(Local(n)) ELSE Local(n)]} :
          StoreAll(f)
    /\ clock' = 1 - clock
    /\ UNCHANGED <<up, net, ghost, aside>>

\* The datagrams are put on the wire (a set: a datagram sent again while its
\* copy is on the wire adds nothing).
Transmit(msgs) == net' = net \cup Sent(msgs)

\* A tick of the JOIN interval: JOIN to the broadcast address. The copy the
\* sender itself receives is dropped by #handleJoin and is left out.
JoinTick(n) ==
    /\ up[n] = "up"
    /\ isDue(joinInterval[n])
    /\ Transmit({Msg("JOIN", n, p, <<>>) : p \in HOSTS \ {n}})
    /\ joinInterval' = [joinInterval EXCEPT ![n].due = DISCOVERY_MESSAGE_INTERVAL]
    /\ UNCHANGED <<nodes, messageBroker, gateway, helloInterval, helloTimeout,
                   helloOrphan, timerList, preElectionTimeout, electionInterval,
                   electionTimeout, receivedOK, coordinatorInterval,
                   coordinatorOrphan, coordinatorTimeout>>
    /\ UNCHANGED <<up, ghost>>

\* A tick of #helloInterval[p].
HelloTick(n, p) ==
    /\ up[n] = "up"
    /\ isDue(helloInterval[n][p])
    /\ Transmit({Msg("HELLO", n, p, helloInterval[n][p].msg)})
    /\ helloInterval' = [helloInterval EXCEPT ![n][p].due = DISCOVERY_MESSAGE_INTERVAL]
    /\ UNCHANGED <<nodes, messageBroker, gateway, joinInterval, helloTimeout,
                   helloOrphan, timerList, preElectionTimeout, electionInterval,
                   electionTimeout, receivedOK, coordinatorInterval,
                   coordinatorOrphan, coordinatorTimeout>>
    /\ UNCHANGED <<up, ghost>>

\* A tick of #electionInterval[p].
ElectionTick(n, p) ==
    /\ up[n] = "up"
    /\ isDue(electionInterval[n][p])
    /\ Transmit({Msg("ELECTION", n, p, <<>>)})
    /\ electionInterval' = [electionInterval EXCEPT ![n][p].due = DISCOVERY_MESSAGE_INTERVAL]
    /\ UNCHANGED <<nodes, messageBroker, gateway, joinInterval, helloInterval,
                   helloTimeout, helloOrphan, timerList, preElectionTimeout,
                   electionTimeout, receivedOK, coordinatorInterval,
                   coordinatorOrphan, coordinatorTimeout>>
    /\ UNCHANGED <<up, ghost>>

\* A tick of #coordinatorInterval[p].
CoordinatorTick(n, p) ==
    /\ up[n] = "up"
    /\ isDue(coordinatorInterval[n][p])
    /\ Transmit({Msg("COORDINATOR", n, p, coordinatorInterval[n][p].msg)})
    /\ coordinatorInterval' =
          [coordinatorInterval EXCEPT ![n][p].due = DISCOVERY_MESSAGE_INTERVAL]
    /\ UNCHANGED <<nodes, messageBroker, gateway, joinInterval, helloInterval,
                   helloTimeout, helloOrphan, timerList, preElectionTimeout, electionInterval,
                   electionTimeout, receivedOK, coordinatorOrphan, coordinatorTimeout>>
    /\ UNCHANGED <<up, ghost>>

\* A tick of a COORDINATOR interval that #coordinatorInterval lost track of.
OrphanTick(n) ==
    /\ up[n] = "up"
    /\ \E o \in coordinatorOrphan[n] :
          /\ isDue(o)
          /\ Transmit({Msg("COORDINATOR", n, o.peer, o.msg)})
          /\ coordinatorOrphan' = [coordinatorOrphan EXCEPT ![n] =
                (@ \ {o}) \cup {[o EXCEPT !.due = DISCOVERY_MESSAGE_INTERVAL]}]
    /\ UNCHANGED <<nodes, messageBroker, gateway, joinInterval, helloInterval,
                   helloTimeout, helloOrphan, timerList, preElectionTimeout, electionInterval,
                   electionTimeout, receivedOK, coordinatorInterval, coordinatorTimeout>>
    /\ UNCHANGED <<up, ghost>>

\* The 'message' listener of host m.dst handles the datagram m.
Handle(m) ==
    /\ up[m.dst] = "up"
    /\ \E r \in {handleMessage(Local(m.dst), m.dst, m)} :
          /\ WithinBounds(r.s)
          /\ Store(m.dst, r.s)
          /\ net' = (net \ {m}) \cup Sent(r.out)
    /\ leader' = IF m.type = "COORDINATOR" /\ acceptsCoordinator(m.dst, m.src)
                 THEN [leader EXCEPT ![m.dst] = FALSE] ELSE leader
    /\ heardHello' = IF m.type \in {"HELLO", "ACK HELLO"}
                     THEN [heardHello EXCEPT ![m.dst] = TRUE] ELSE heardHello
    /\ okFrom' = IF m.type = "OK"
                 THEN [okFrom EXCEPT ![m.dst] = @ \cup {m.src}] ELSE okFrom
    /\ acked' = IF m.type = "COORDINATOR" /\ acceptsCoordinator(m.dst, m.src)
                THEN [acked EXCEPT ![m.dst] = @ \cup {m.src}] ELSE acked
    /\ UNCHANGED <<up, clock, asked, silent, aside>>

\* A datagram on the wire arrives. An event loop runs the callbacks of the
\* timers that are due before it handles what the socket has received.
Deliver(m) ==
    /\ m \in net
    /\ Turn(m.dst)
    /\ ~somethingDue(Local(m.dst))
    /\ Handle(m)

\* The timeout is the one the instance of host n runs next: the oldest of
\* those pending.
runsNext(n, timer) == timerList[n] # <<>> /\ Head(timerList[n]) = timer

\* The timeout #helloTimeout[p] refers to runs its callback.
HelloTimeoutFires(n, p) ==
    /\ up[n] = "up"
    /\ helloTimeout[n][p] = 0
    /\ runsNext(n, Timer("hello", p))
    /\ \E s \in {[helloTimedOut(Local(n), p) EXCEPT !.helloTimeout[p] = NoTimer,
                                                    !.timerList = Tail(@)]} :
          Store(n, s)
    /\ UNCHANGED <<up, net, ghost>>

\* A timeout set for an earlier HELLO transaction to p runs its callback.
HelloOrphanFires(n, p) ==
    /\ up[n] = "up"
    /\ helloOrphan[n][p] # <<>>
    /\ Head(helloOrphan[n][p]) = 0
    /\ runsNext(n, Timer("helloOrphan", p))
    /\ \E s \in {[helloTimedOut(Local(n), p) EXCEPT !.helloOrphan[p] = Tail(@),
                                                    !.timerList = Tail(@)]} :
          Store(n, s)
    /\ UNCHANGED <<up, net, ghost>>

\* Whether the instance runs #sendCoordinator when its pre-election timeout fires.
LeadsAtOnce(n) == Len(higherPriorities(Local(n), n)) = 0

\* The callback of #preElectionTimeout: #startElection.
PreElectionTimeoutFires(n) ==
    /\ up[n] = "up"
    /\ preElectionTimeout[n] = 0
    /\ runsNext(n, Timer("preElection", 0))
    /\ \E s \in {startElection([Local(n) EXCEPT !.preElectionTimeout = NoTimer,
                                                !.timerList = Tail(@)], n)} :
          WithinBounds(s) /\ Store(n, s)
    /\ leader' = IF LeadsAtOnce(n) THEN [leader EXCEPT ![n] = TRUE] ELSE leader
    /\ asked' = [asked EXCEPT ![n] = addresses(higherPriorities(Local(n), n))]
    /\ silent' = [silent EXCEPT ![n] =
                     {p \in addresses(higherPriorities(Local(n), n)) : up[p] # "up"}]
    /\ okFrom' = [okFrom EXCEPT ![n] = {}]
    /\ UNCHANGED <<up, net, heardHello, acked>>

\* The callback of #electionTimeout[h].
ElectionTimeoutFires(n, h) ==
    /\ up[n] = "up"
    /\ electionTimeout[n][h] = 0
    /\ runsNext(n, Timer("election", h))
    /\ \E s \in {electionTimedOut(Local(n), n, h)} :
          WithinBounds(s) /\ Store(n, s)
    /\ leader' = IF ~receivedOK[n] THEN [leader EXCEPT ![n] = TRUE] ELSE leader
    /\ UNCHANGED <<up, net, heardHello, asked, silent, okFrom, acked>>

\* The oldest anonymous timeout of #sendCoordinator for p runs its callback.
CoordinatorTimeoutFires(n, p) ==
    /\ up[n] = "up"
    /\ coordinatorTimeout[n][p] # <<>>
    /\ Head(coordinatorTimeout[n][p]) = 0
    /\ runsNext(n, Timer("coordinator", p))
    /\ \E s \in {[coordinatorTimedOut(Local(n), p) EXCEPT !.coordinatorTimeout[p] = Tail(@),
                                                          !.timerList = Tail(@)]} :
          Store(n, s)
    /\ UNCHANGED <<up, net, ghost>>

\* A tick of one of the intervals of host n.
Tick(n) ==
    Turn(n) /\ UNCHANGED <<clock, aside>> /\
    \/ JoinTick(n)
    \/ OrphanTick(n)
    \/ \E p \in HOSTS \ {n} :
          \/ HelloTick(n, p)
          \/ ElectionTick(n, p)
          \/ CoordinatorTick(n, p)

\* A timeout of host n runs its callback.
Timeout(n) ==
    Turn(n) /\ UNCHANGED <<clock, aside>> /\
    \/ PreElectionTimeoutFires(n)
    \/ \E p \in HOSTS \ {n} :
          \/ HelloTimeoutFires(n, p)
          \/ HelloOrphanFires(n, p)
          \/ ElectionTimeoutFires(n, p)
          \/ CoordinatorTimeoutFires(n, p)

\* The steps of the cluster.
Next ==
    \/ \E n \in HOSTS : Listening(n)
    \/ \E n \in HOSTS : Tick(n)
    \/ \E n \in HOSTS : Timeout(n)
    \/ \E n \in HOSTS : Crash(n)
    \/ \E m \in net : Deliver(m)
    \/ Advance

Spec == Init /\ [][Next]_vars

\* The cluster where both hosts of higher priority than host 1 may fall
\* silent.
NextOutage ==
    \/ \E n \in HOSTS : Listening(n)
    \/ \E n \in HOSTS : Tick(n)
    \/ \E n \in HOSTS : Timeout(n)
    \/ \E n \in {2, 3} : FallsSilent(n)
    \/ \E m \in net : Deliver(m)
    \/ Advance

SpecOutage == Init /\ [][NextOutage]_vars

\* The clock of the hosts goes on, one step of Advance after the other.
ClockTicks == clock' = 1 - clock

\* The event loops keep running: time goes on, and since time only goes on
\* when no host has an event left to handle (Advance needs Idle), the events
\* of every instant get handled.
TimePasses == WF_clock(ClockTicks)

\* The cluster in which host 3 may fall silent, its clocks going on.
SpecFair == Init /\ [][Next]_vars /\ TimePasses

\* The cluster in which no host falls silent: every datagram sent is
\* delivered, the hosts are started at any times.
NextLossless ==
    \/ \E n \in HOSTS : Listening(n)
    \/ \E n \in HOSTS : Tick(n)
    \/ \E n \in HOSTS : Timeout(n)
    \/ \E m \in net : Deliver(m)
    \/ Advance

SpecLossless == Init /\ [][NextLossless]_vars

\* Host n is started before any host has discovered another.
StartTogether(n) ==
    /\ \A k \in HOSTS : Len(nodes[k]) = 1
    /\ Listening(n)

\* S2: the three hosts, started before any of them has discovered another,
\* none of which falls silent.
NextS2 ==
    \/ \E n \in HOSTS : StartTogether(n)
    \/ \E n \in HOSTS : Tick(n)
    \/ \E n \in HOSTS : Timeout(n)
    \/ \E m \in net : Deliver(m)
    \/ Advance

SpecS2 == Init /\ [][NextS2]_vars /\ TimePasses

\* S1: node A is host 1, node B is host 2; host 3 is never started.
NextS1 ==
    \/ \E n \in {1, 2} : Listening(n)
    \/ \E n \in {1, 2} : Tick(n)
    \/ \E n \in {1, 2} : Timeout(n)
    \/ \E m \in net : Deliver(m)
    \/ Advance

SpecS1 == Init /\ [][NextS1]_vars /\ TimePasses

(***************************************************************************)
(* One instance on its own: the instance of host 1, listening, receives    *)
(* datagrams of any text from hosts 2 and 3 and from its own address.      *)
(***************************************************************************)

\* The role lists an entry of a datagram may carry; EDITING is no Role.
RoleLists == {<<>>, <<ROLE_MB>>, <<ROLE_GW>>, <<"EDITING">>}

\* The JSON object {"address": "10.0.0.<a>", "roles": r}.
Entry(a, r) ==
    [kind |-> "object", address |-> [kind |-> "string", text |-> a],
     roles |-> [kind |-> "array", items |-> r]]

\* Values that are no node-info object: null, a string, an object without
\* roles, an object whose address is a number, an object whose roles are a
\* string.
Misfits ==
    { [kind |-> "null", address |-> undefinedAddress, roles |-> undefinedRoles],
      [kind |-> "string", address |-> undefinedAddress, roles |-> undefinedRoles],
      [kind |-> "object", address |-> [kind |-> "string", text |-> 2],
       roles |-> undefinedRoles],
      [kind |-> "object", address |-> [kind |-> "number", text |-> 2],
       roles |-> [kind |-> "array", items |-> <<>>]],
      [kind |-> "object", address |-> [kind |-> "string", text |-> 2],
       roles |-> [kind |-> "string", items |-> <<>>]] }

\* The values an array of a datagram may hold.
Items == {Entry(a, r) : a \in {2, 3} \cup FOREIGN, r \in RoleLists} \cup Misfits

\* The values the JSON text of a datagram may stand for.
Docs ==
    {SyntaxError, [kind |-> "object", items |-> <<>>], [kind |-> "array", items |-> <<>>]}
    \cup {[kind |-> "array", items |-> <<i>>] : i \in Items}
    \cup {[kind |-> "array", items |-> <<Entry(1, <<>>), i>>] : i \in Items}

\* The texts a datagram may have.
Datagrams ==
    {<<>>, <<Word("PING")>>, <<Word("HELLO"), Word("")>>}
    \cup {<<Word(w)>> :
            w \in {"JOIN", "HELLO", "ACK", "ELECTION", "OK", "COORDINATOR", "ASSIGN"}}
    \cup {<<Word(w), Json(d, FALSE)>> : w \in {"HELLO", "COORDINATOR"}, d \in Docs}
    \cup {<<Word("HELLO"), Json([kind |-> "array", items |-> <<Entry(2, <<>>)>>], TRUE)>>}
    \cup {<<Word("ACK"), Word(w)>> : w \in {"HELLO", "COORDINATOR", "ASSIGN", "PING"}}
    \cup {<<Word("ACK"), Word(w), Json(d, FALSE)>> :
            w \in {"HELLO", "COORDINATOR", "ASSIGN"}, d \in Docs}

\* The socket of the instance emits 'message' for the datagram msg from
\* remote; the listener runs to its end.
OnMessage(msg, remote) ==
    /\ received < MaxDatagrams
    /\ received' = received + 1
    /\ datagram' = msg
    /\ parsed' = parseDiscoveryMessage(msg)
    /\ \E r \in {onMessage(receiver, 1, msg, remote)} :
          /\ receiver' = r.s
          /\ replies' = r.out
    /\ UNCHANGED <<cluster, controller, voting, store, numbering>>

NextListener == \E msg \in Datagrams, remote \in HOSTS : OnMessage(msg, remote)

SpecListener == Init /\ [][NextListener]_vars

(***************************************************************************)
(* The role controller of host 1 (server.ts) on its own: it handles the    *)
(* 'newRoles' events of its Discovery instance.                            *)
(***************************************************************************)

\* The role lists an entry of the table may hold.
HeldRoles == {<<>>, <<ROLE_MB>>, <<ROLE_GW>>, <<ROLE_GW, ROLE_MB>>}

\* The node lists a 'newRoles' event may carry: the table of host 1 with
\* host 2 in it, or a list that lacks the entry of host 1.
RolesEvents ==
    {<<[address |-> 1, priority |-> PRIORITY(1), roles |-> r1],
       [address |-> 2, priority |-> PRIORITY(2), roles |-> r2]>> :
        r1 \in HeldRoles, r2 \in HeldRoles}
    \cup {<<[address |-> 2, priority |-> PRIORITY(2), roles |-> r2]>> : r2 \in HeldRoles}

\* newNodes.find((node) => node.address === HOST) is there.
listsHost(newNodes, host) == hasAddress(newNodes, host)

\* newNodes.find((node) => node.address === HOST)?.roles, where there is one.
rolesOfHost(newNodes, host) == newNodes[indexOfAddress(newNodes, host) + 1].roles

\* newNodes.find((node) => node.roles.includes('MESSAGE_BROKER'))?.address,
\* or 0 where it is undefined.
brokerAddressOf(newNodes) ==
    LET at == {i \in 1..Len(newNodes) : includes(newNodes[i].roles, ROLE_MB)}
    IN  IF at = {} THEN 0
        ELSE newNodes[CHOOSE i \in at : \A k \in at : i <= k].address

\* The listener of 'newRoles': the Messaging instance there is, is closed,
\* and a new one is constructed, as the broker or as a client of the broker.
\* close() returns once the server was told to close; nothing waits for it.
\* The constructor of a client throws when no entry holds MESSAGE_BROKER
\* (the address is undefined): messaging keeps the instance that was closed.
NewRoles(newNodes) ==
    /\ instances < MaxInstances
    /\ closed < MaxInstances
    /\ snapshot' = newNodes
    /\ closed' = IF messaging.live THEN closed + 1 ELSE closed
    /\ closing' = IF messaging.live /\ messaging.open /\ messaging.broker
                  THEN closing \cup {messaging.id} ELSE closing
    /\ IF listsHost(newNodes, 1) /\ includes(rolesOfHost(newNodes, 1), ROLE_MB)
       THEN /\ messaging' = Messaging(TRUE, 0, instances + 1)
            /\ instances' = instances + 1
       ELSE IF brokerAddressOf(newNodes) = 0
       THEN /\ messaging' = [messaging EXCEPT !.open = FALSE]
            /\ UNCHANGED instances
       ELSE /\ messaging' = [Messaging(FALSE, brokerAddressOf(newNodes), instances + 1)
                                EXCEPT !.rooms = {"testiHuone"}]
            /\ instances' = instances + 1
    /\ UNCHANGED <<cluster, listener, voting, store, numbering>>

\* The server of the broker id has closed: the callback of its close() runs.
ServerClosed(id) ==
    /\ id \in closing
    /\ closing' = closing \ {id}
    /\ UNCHANGED <<messaging, snapshot, instances, closed>>
    /\ UNCHANGED <<cluster, listener, voting, store, numbering>>

NextController ==
    \/ \E newNodes \in RolesEvents : NewRoles(newNodes)
    \/ \E id \in 1..MaxInstances : ServerClosed(id)

SpecController == Init /\ [][NextController]_vars

(***************************************************************************)
(* The Consensus instances of a cluster on their own: the timeouts of the  *)
(* elections they start on construction, and the messages of the room.     *)
(***************************************************************************)

\* sendToRoom('consensus', ...): the messages out reach every other member.
Broadcast(self, out) ==
    {[to |-> k, messageType |-> out[i].messageType, nodeState |-> out[i].nodeState,
      electionState |-> out[i].electionState] : k \in members \ {self}, i \in 1..Len(out)}

\* The OK messages among out, as the votes they grant.
Grants(self, status, out) ==
    {[voter |-> self, status |-> status, candidate |-> out[i].electionState.candidate,
      term |-> out[i].electionState.term] :
        i \in {k \in 1..Len(out) : out[k].messageType = "OK"}}

\* The election timeout of member n runs its callback: VOTEME is sent.
ElectionTimeoutCallback(n) ==
    /\ n \in members
    /\ consensus[n].electionTimeout.pending
    /\ consensus' = [consensus EXCEPT ![n].electionTimeout.pending = FALSE]
    /\ room' = room \cup
          Broadcast(n, <<ElectionMessage("VOTEME", consensus[n].electionTimeout.myState,
                                         consensus[n].electionTimeout.electionState)>>)
    /\ UNCHANGED <<members, granted>>
    /\ UNCHANGED <<cluster, listener, controller, store, numbering>>

\* The listener of 'consensus' of member m.to handles the election message m.
OnConsensus(m) ==
    /\ m \in room
    /\ \E r \in {consensusHandleElection(consensus[m.to], m.to, m.messageType,
                                         m.nodeState, m.electionState)} :
          /\ consensus' = [consensus EXCEPT ![m.to] = r.s]
          /\ room' = (room \ {m}) \cup Broadcast(m.to, r.out)
          /\ granted' = granted \cup Grants(m.to, consensus[m.to].status, r.out)
    /\ UNCHANGED members
    /\ UNCHANGED <<cluster, listener, controller, store, numbering>>

NextConsensus ==
    \/ \E n \in HOSTS : ElectionTimeoutCallback(n)
    \/ \E m \in room : OnConsensus(m)

\* The clusters of two and of three members, each instance constructed.
InitConsensus ==
    /\ Booted /\ Listens /\ Controls /\ Stores(NoFile) /\ Numbers(Interface)
    /\ \E m \in Memberships : Elects(m)

\* Every timeout that is set runs its callback, every message is delivered.
SpecConsensus == InitConsensus /\ [][NextConsensus]_vars /\ WF_vars(NextConsensus)

(***************************************************************************)
(* The Storage instance of host 1 on its own.                              *)
(***************************************************************************)

\* createDocument(documentName); the instance is initialized when the
\* constructor has returned, so the callback runs at once.
CreateDocument(documentName) ==
    /\ Len(storage.documents) < MaxDocuments
    /\ \E newDocument \in {Document(toString10(storage.documentIDCount), documentName)} :
          /\ storage' = [storage EXCEPT !.documentIDCount = @ + 1,
                                        !.documents = Append(@, newDocument)]
          /\ file' = writeDocuments(Append(storage.documents, newDocument))
          /\ created' = Append(created, newDocument)
    /\ UNCHANGED <<cluster, listener, controller, voting, numbering>>

NextStorage == \E documentName \in {"a", "b"} : CreateDocument(documentName)

\* The Storage instance is constructed with one of the files on the disk.
InitStorage ==
    /\ Booted /\ Listens /\ Controls /\ Elects(HOSTS) /\ Numbers(Interface)
    /\ \E f \in Files : Stores(f)

SpecStorage == InitStorage /\ [][NextStorage]_vars

(***************************************************************************)
(* The address arithmetic on its own: getNetworkInfo for one interface and *)
(* getPriorityNumber for addresses under the netmask of that interface.    *)
(***************************************************************************)

\* The priorities computed in a run.
MaxPriorities == 2

\* The IPv4 addresses taken: octets at both ends of the range and between.
Addresses ==
    {<<a1, a2, a3, a4>> : a1 \in {10, 100}, a2 \in {0, 255}, a3 \in {16, 17},
                          a4 \in {1, 2, 127, 128, 255}}

\* The netmasks taken: prefixes of 1, 8, 16, 20, 24, 30 and 32 bits.
Netmasks ==
    { <<128, 0, 0, 0>>, <<255, 0, 0, 0>>, <<255, 255, 0, 0>>, <<255, 255, 240, 0>>,
      <<255, 255, 255, 0>>, <<255, 255, 255, 252>>, <<255, 255, 255, 255>> }

\* getPriorityNumber(address, netmask of the interface) is called.
GetPriorityNumber(address) ==
    /\ Cardinality(priorities) < MaxPriorities
    /\ \A q \in priorities : q.address # address
    /\ priorities' = priorities \cup
          {[address |-> address,
            priority |-> getPriorityNumber(address, netInfo.netmask)]}
    /\ UNCHANGED <<netInfo, networkInfo>>
    /\ UNCHANGED <<cluster, listener, controller, voting, store>>

NextNetwork == \E address \in Addresses : GetPriorityNumber(address)

\* getNetworkInfo has run for an interface of any address and netmask.
InitNetwork ==
    /\ Booted /\ Listens /\ Controls /\ Elects(HOSTS) /\ Stores(NoFile)
    /\ \E a \in Addresses, m \in Netmasks : Numbers([address |-> a, netmask |-> m])

SpecNetwork == InitNetwork /\ [][NextNetwork]_vars

(***************************************************************************)
(* Properties                                                              *)
(***************************************************************************)

\* The hosts that are listening.
Live == {n \in HOSTS : up[n] = "up"}

\* The indexes of the entries of table t whose roles contain role.
holders(t, role) == {i \in 1..Len(t) : includes(t[i].roles, role)}

\* The entry of host a in table t has role.
holdsRole(t, a, role) ==
    \E i \in 1..Len(t) : t[i].address = a /\ includes(t[i].roles, role)

\* No timer is pending and no interval is running on host n.
AtRest(n) ==
    /\ ~somethingDue(Local(n))
    /\ elapse(Local(n)) = Local(n)

\* The whole cluster is at rest: nothing on the wire, no timer anywhere.
Settled == Quiet /\ \A n \in Live : AtRest(n)

\* C1 (role uniqueness): in every reachable state the membership table of
\* every node has at most one entry whose roles contain MESSAGE_BROKER and
\* at most one entry whose roles contain GATEWAY.
RoleUniqueness ==
    \A n \in Live :
        /\ Cardinality(holders(nodes[n], ROLE_MB)) <= 1
        /\ Cardinality(holders(nodes[n], ROLE_GW)) <= 1

\* Host n runs #sendCoordinator in this step.
BecomesLeader(n) ==
    \/ PreElectionTimeoutFires(n) /\ LeadsAtOnce(n)
    \/ \E h \in HOSTS \ {n} : ElectionTimeoutFires(n, h) /\ ~receivedOK[n]

\* The table of host n lists a listening host of higher priority.
HasLiveHigherPeer(n) ==
    \E i \in 1..Len(nodes[n]) :
        /\ nodes[n][i].priority > PRIORITY(n)
        /\ nodes[n][i].address \in Live

\* C2 (Bully safety, no datagram lost): a node whose table lists a live peer
\* of higher priority never becomes LEADER, that is, never runs
\* #sendCoordinator.
BullySafety ==
    [][\A n \in HOSTS : BecomesLeader(n) => ~HasLiveHigherPeer(n)]_vars

\* The three hosts are listening and every table lists all three.
AllKnowEachOther ==
    /\ Live = HOSTS
    /\ \A n \in HOSTS : addresses(nodes[n]) = HOSTS

\* Host 3 is LEADER, hosts 1 and 2 have sent it ACK COORDINATOR, and every
\* table lists host 3 with MESSAGE_BROKER and host 1 with GATEWAY.
HighestLeads ==
    /\ leader[3]
    /\ 3 \in acked[1] /\ 3 \in acked[2]
    /\ \A n \in HOSTS :
          holdsRole(nodes[n], 3, ROLE_MB) /\ holdsRole(nodes[n], 1, ROLE_GW)

\* C3 (S2): three live nodes of priorities 1 < 2 < 3 that know each other:
\* eventually node 3 is LEADER, nodes 1 and 2 have sent it ACK COORDINATOR,
\* and all three tables list node 3 with MESSAGE_BROKER and node 1 with
\* GATEWAY, and stay that way.
HighestPriorityWins == AllKnowEachOther ~> []HighestLeads

\* S2 has run to its end: the three hosts know each other, host 3 leads,
\* and nothing is left to happen.
HighestLeadsReached == AllKnowEachOther /\ HighestLeads /\ Settled

\* C4 (the leader keeps MESSAGE_BROKER): from the step a node runs #setRoles
\* until it accepts a COORDINATOR of a higher-priority node, its own entry
\* contains MESSAGE_BROKER, whatever HELLO or ACK HELLO it handles meanwhile.
LeaderKeepsMessageBroker ==
    \A n \in Live : leader[n] => holdsRole(nodes[n], n, ROLE_MB)

\* The S3 round is over: host 1 sent ELECTION to hosts 2 and 3 when host 3
\* was already silent, host 2 answered with OK, and nothing is left to happen.
S3Complete ==
    /\ Live = {1, 2}
    /\ asked[1] = {2, 3}
    /\ silent[1] = {3}
    /\ okFrom[1] = {2}
    /\ Settled

\* C5 (S3, eviction of the silent peer): once the round of host 1's election
\* (ELECTION to 2 answered by OK, ELECTION to 3 never answered) is over, the
\* tables of host 1 and host 2 no longer contain host 3.
SilentPeerEvicted ==
    S3Complete => ~hasAddress(nodes[1], 3) /\ ~hasAddress(nodes[2], 3)

\* C6 (S3, the OK sender takes over): once the round of host 1's election is
\* over, host 2 has become LEADER and host 1 has taken its COORDINATOR (it
\* has sent host 2 the ACK COORDINATOR and lists it as MESSAGE_BROKER).
OkSenderLeads ==
    S3Complete =>
        leader[2] /\ 2 \in acked[1] /\ holdsRole(nodes[1], 2, ROLE_MB)

\* C7 (retransmit bound): every interval that is running can still be
\* stopped by a timeout that is pending for it; an interval no handle refers
\* to any more can be stopped by nothing and sends for ever.
IntervalsBounded ==
    \A n \in Live :
        /\ coordinatorOrphan[n] = {}
        /\ \A p \in HOSTS :
              /\ helloInterval[n][p].live =>
                    helloTimeout[n][p] # NoTimer \/ helloOrphan[n][p] # <<>>
              /\ electionInterval[n][p].live => electionTimeout[n][p] # NoTimer
              /\ coordinatorInterval[n][p].live => coordinatorTimeout[n][p] # <<>>

\* C8 (JOIN quiescence): a node that has handled a HELLO or an ACK HELLO
\* never broadcasts JOIN again.
JoinQuiescence ==
    [][\A n \in HOSTS : heardHello[n] => ~JoinTick(n)]_vars

\* Both tables hold exactly the entries of host 1 and host 2.
BothTablesComplete ==
    \A n \in {1, 2} : Len(nodes[n]) = 2 /\ addresses(nodes[n]) = {1, 2}

minPriority(q) ==
    CHOOSE x \in {priorityOf(q[i].address) : i \in 1..Len(q)} :
        \A i \in 1..Len(q) : x <= priorityOf(q[i].address)

\* In the COORDINATOR payload q every entry tagged GATEWAY has the lowest
\* priority of the payload, which lists the table it was built from.
GatewayIsMinimum(q) ==
    \A i \in 1..Len(q) :
        includes(q[i].roles, ROLE_GW) => priorityOf(q[i].address) = minPriority(q)

\* C10 (gateway = minimum priority): in every COORDINATOR payload a node
\* builds, every entry tagged GATEWAY is the entry of the lowest priority of
\* the table at that moment.
GatewayIsMinPriority ==
    \A n \in Live : \A p \in HOSTS :
        coordinatorInterval[n][p].live => GatewayIsMinimum(coordinatorInterval[n][p].msg)

\* The node list q tags the address c, and no other address, MESSAGE_BROKER.
NamesOnlyBroker(q, c) ==
    /\ holdsRole(q, c, ROLE_MB)
    /\ \A i \in 1..Len(q) : includes(q[i].roles, ROLE_MB) => q[i].address = c

\* C11 (coordinator = broker): every COORDINATOR datagram a node c has sent
\* lists c with MESSAGE_BROKER and lists no other address with
\* MESSAGE_BROKER.
CoordinatorIsBroker ==
    \A m \in net : m.type = "COORDINATOR" => NamesOnlyBroker(m.nodeInfo, m.src)

\* A COORDINATOR that lists all three hosts is on the wire.
CoordinatorOnWire ==
    \E m \in net : m.type = "COORDINATOR" /\ Len(m.nodeInfo) = 3

\* C12 (no member holds both roles): in the table of a node that has become
\* LEADER no entry holds both MESSAGE_BROKER and GATEWAY, the table that
\* holds the leader alone included.
NoMemberHoldsBoth ==
    \A n \in Live : leader[n] =>
        \A i \in 1..Len(nodes[n]) :
            ~(includes(nodes[n][i].roles, ROLE_MB) /\ includes(nodes[n][i].roles, ROLE_GW))

\* C13 (identity): no two entries of a table have the same address, and the
\* priority of every entry is the one computed from its address and the
\* netmask.
EntriesIdentified ==
    \A n \in Live :
        /\ \A i, j \in 1..Len(nodes[n]) :
              nodes[n][i].address = nodes[n][j].address => i = j
        /\ \A i \in 1..Len(nodes[n]) :
              nodes[n][i].priority = getPriorityNumber(IP(nodes[n][i].address), NETMASK)

\* A node has taken entries from a received node list and from a COORDINATOR
\* payload, and its table lists all three hosts.
TableFilledFromLists ==
    \E n \in Live : heardHello[n] /\ acked[n] # {} /\ Len(nodes[n]) = 3

\* C14 (own entry): the table of a node always holds the node's own entry.
OwnEntryPresent ==
    \A n \in Live : hasAddress(nodes[n], n)

\* A node has evicted a silent peer on an election timeout, and still lists
\* itself.
EvictedButSelf ==
    \E n \in Live :
        /\ silent[n] # {}
        /\ \A p \in silent[n] : ~hasAddress(nodes[n], p)
        /\ hasAddress(nodes[n], n)

\* The instance of host n after #addNodes(l), and after a second #addNodes(l)
\* right after the first.
MergedOnce(n, l) == addNodes(Local(n), n, l).s
MergedTwice(n, l) == addNodes(MergedOnce(n, l), n, l).s

\* The node lists that are about to be merged: those of the HELLO and ACK
\* HELLO datagrams on the wire to a listening host.
ListsOnWire == {m \in net : m.type \in {"HELLO", "ACK HELLO"} /\ up[m.dst] = "up"}

\* C15 (idempotent merging): merging a node list twice leaves the same
\* table, the same recorded broker and gateway and the same pending
\* pre-election timeout as merging it once.
MergeIdempotent ==
    \A m \in ListsOnWire : MergedTwice(m.dst, m.nodeInfo) = MergedOnce(m.dst, m.nodeInfo)

\* A node list is about to be merged that adds a peer to the table, records
\* a broker and arms the pre-election timeout.
MergeAddsPeer ==
    \E m \in ListsOnWire :
        /\ Len(MergedOnce(m.dst, m.nodeInfo).nodes) > Len(nodes[m.dst])
        /\ MergedOnce(m.dst, m.nodeInfo).messageBroker # messageBroker[m.dst]
        /\ MergedOnce(m.dst, m.nodeInfo).preElectionTimeout = DISCOVERY_PREELECTION_TIMEOUT

\* The node list the handler of datagram m passes to #addNodes.
mergedList(m) ==
    IF m.type = "JOIN" THEN << [address |-> m.src, roles |-> <<>>] >> ELSE m.nodeInfo

\* Host n emits a 'nodes' event in this step: the step is the handling of a
\* JOIN, HELLO or ACK HELLO whose #addNodes emits it. No other code emits it.
EmitsNodes(n) ==
    \E m \in net :
        /\ m.dst = n
        /\ m.type \in {"JOIN", "HELLO", "ACK HELLO"}
        /\ Handle(m)
        /\ addNodesEmitsNodes(Local(n), n, mergedList(m))

\* The membership of the table of host n changes in this step.
MembershipChanges(n) ==
    /\ up[n] = "up" /\ up'[n] = "up"
    /\ addresses(nodes'[n]) # addresses(nodes[n])

\* C16 ('nodes' event): whenever the membership of a table changes, by an
\* added peer or by an eviction, the node emits a 'nodes' event.
NodesEventOnChange ==
    [][\A n \in HOSTS : MembershipChanges(n) => EmitsNodes(n)]_vars

\* The datagram m is a COORDINATOR whose sender has no higher priority than
\* its receiver.
InvalidCoordinator(m) ==
    m.type = "COORDINATOR" /\ priorityOf(m.src) <= PRIORITY(m.dst)

\* C17 (invalid COORDINATOR): a COORDINATOR of a sender whose priority is not
\* above the receiver's is dropped: the receiver sends no ACK COORDINATOR,
\* cancels no timer, and keeps its table and roles.
InvalidCoordinatorDropped ==
    [][\A m \in net :
          InvalidCoordinator(m) /\ Deliver(m) =>
              /\ Local(m.dst)' = Local(m.dst)
              /\ net' = net \ {m}]_vars

\* A host r has handled the COORDINATOR of a host c of lower priority: the
\* interval of c for r has sent it (it has run for an interval or more), the
\* datagram is off the wire, and the interval still runs as no ACK came.
InvalidCoordinatorHandled ==
    \E c, r \in Live :
        /\ priorityOf(c) <= PRIORITY(r) /\ c # r
        /\ coordinatorInterval[c][r].live
        /\ coordinatorInterval[c][r].due = DISCOVERY_MESSAGE_INTERVAL
        /\ coordinatorTimeout[c][r] # <<>>
        /\ Head(coordinatorTimeout[c][r]) <= DISCOVERY_MESSAGE_TIMEOUT - DISCOVERY_MESSAGE_INTERVAL
        /\ ~\E m \in net : m.type = "COORDINATOR" /\ m.src = c /\ m.dst = r
        /\ c \notin acked[r]

\* The words a datagram may begin with.
MessageTypes == {"JOIN", "HELLO", "ACK", "ELECTION", "OK", "COORDINATOR", "ASSIGN"}

\* The datagram of the pieces msgSplit is of a kind that carries a node
\* list: a HELLO, a COORDINATOR, an ACK HELLO or an ACK COORDINATOR.
carriesList(msgSplit) ==
    \/ msgSplit[1].word \in {"HELLO", "COORDINATOR"}
    \/ /\ msgSplit[1].word = "ACK"
       /\ Len(msgSplit) >= 2
       /\ msgSplit[2].word \in {"HELLO", "COORDINATOR"}

\* Where the node list of such a datagram is (counted from 0).
payloadAt(msgSplit) == IF msgSplit[1].word = "ACK" THEN 2 ELSE 1

\* The text msg is of an unknown type, or lacks the payload its type needs,
\* or its payload is not JSON or not an array, or an entry of the array is
\* not an object with an address string and a roles array.
Malformed(msg) ==
    LET msgSplit == split(msg)
        doc == docAt(msgSplit, payloadAt(msgSplit))
    IN  \/ msgSplit[1].word \notin MessageTypes
        \/ /\ carriesList(msgSplit)
           /\ \/ ~has(msgSplit, payloadAt(msgSplit))
              \/ doc.kind # "array"
              \/ \E i \in 1..Len(doc.items) :
                    \/ doc.items[i].kind # "object"
                    \/ doc.items[i].address.kind # "string"
                    \/ doc.items[i].roles.kind # "array"

\* C18 (parse failure discards): a datagram of an unknown type, without its
\* payload, with a payload that is not JSON or not an array, or with an entry
\* that is not a node-info object fails parsing, and a datagram that fails
\* parsing leaves the receiver as it was (table, roles, every timer) and has
\* no datagram sent in response.
ParseFailureDiscards ==
    [][received' # received =>
          /\ Malformed(datagram') => parsed'.failed
          /\ parsed'.failed => receiver' = receiver /\ replies' = {}]_vars

\* The instance has added host 2 on its JOIN, with the HELLO interval and
\* its timeout running, and has then received a malformed datagram.
MalformedReceived ==
    /\ received = 2
    /\ Malformed(datagram)
    /\ parsed.failed
    /\ Len(receiver.nodes) = 2
    /\ receiver.helloInterval[2].live
    /\ receiver.helloTimeout[2] # NoTimer

\* The node list of the text msg has an entry whose address is no valid
\* dotted IPv4 address, or that names a role outside the enumerated set.
CarriesInvalidEntry(msg) ==
    LET msgSplit == split(msg)
        doc == docAt(msgSplit, payloadAt(msgSplit))
    IN  /\ carriesList(msgSplit)
        /\ has(msgSplit, payloadAt(msgSplit))
        /\ doc.kind = "array"
        /\ \E i \in 1..Len(doc.items) :
              /\ doc.items[i].kind = "object"
              /\ \/ /\ doc.items[i].address.kind = "string"
                    /\ ~validAddress(IP(doc.items[i].address.text))
                 \/ /\ doc.items[i].roles.kind = "array"
                    /\ \E k \in 1..Len(doc.items[i].roles.items) :
                          ~isRole(doc.items[i].roles.items[k])

\* C19 (invalid entries rejected): a datagram whose node list has an entry
\* with an invalid address or an unknown role is rejected by the parser, and
\* the table never holds an entry whose address is not a valid IPv4 address.
InvalidEntryRejected ==
    /\ received > 0 /\ CarriesInvalidEntry(datagram) => parsed.failed
    /\ \A i \in 1..Len(receiver.nodes) : validAddress(IP(receiver.nodes[i].address))

\* The roles of the entry of host in the list newNodes, as a set.
roleSet(newNodes, host) ==
    {rolesOfHost(newNodes, host)[i] : i \in 1..Len(rolesOfHost(newNodes, host))}

\* C20 (equal role sets): when a 'newRoles' event arrives in which host 1 has
\* the role set it already acts on, the role controller does nothing: the
\* Messaging instance that runs is not closed and no new one is constructed.
SameRolesNoRestart ==
    [][\A newNodes \in RolesEvents :
          /\ NewRoles(newNodes)
          /\ messaging.live
          /\ listsHost(snapshot, 1) /\ listsHost(newNodes, 1)
          /\ roleSet(newNodes, 1) = roleSet(snapshot, 1)
          => messaging' = messaging /\ closed' = closed]_vars

\* C21 (stop before start): the new Messaging instance is started only once
\* the close of the previous instance of the same role has completed: no
\* broker runs while the server of an earlier broker is still closing.
StopCompletesBeforeStart ==
    messaging.live /\ messaging.open /\ messaging.broker => closing = {}

\* C22 (one vote per term): a member sends OK to a VOTEME only if it is not
\* a candidate itself, and it sends OK to at most one candidate per term.
OneVotePerTerm ==
    /\ \A g \in granted : g.status # "CANDIDATE"
    /\ \A g, h \in granted :
          g.voter = h.voter /\ g.term = h.term => g.candidate = h.candidate

\* The votes member n holds for its own candidacy.
ownVotes(n) == consensus[n].electionState[n].votes

\* C23 (majority elects): a member is LEADER only with the votes of a
\* majority of the nodes it knows, and in a cluster of two or more members,
\* where every member answers VOTEME with OK, a candidate becomes LEADER.
MajorityElects ==
    /\ [](\A n \in members :
            consensus[n].status = "LEADER" =>
                2 * Len(ownVotes(n)) > Len(consensus[n].nodes))
    /\ <>(\E n \in members : consensus[n].status = "LEADER")

\* The number a document's id is the rendering of.
idOf(document) == parseInt10(document.documentID)

\* C24 (document ids increase): the document createDocument returns has the
\* id, rendered as a string, that is above the id of every document created
\* or loaded before it, so that no two stored documents share an id.
DocumentIdsIncrease ==
    /\ [][created' # created =>
            /\ created'[Len(created')] = storage'.documents[Len(storage'.documents)]
            /\ \A i \in 1..Len(storage.documents) :
                  idOf(storage.documents[i]) < idOf(created'[Len(created')])]_vars
    /\ [](\A i, k \in 1..Len(storage.documents) :
            i # k => storage.documents[i].documentID # storage.documents[k].documentID)

\* A store that was loaded from a list of documents has created documents up
\* to one whose id has two digits.
CreatedAfterLoad ==
    /\ Len(created) >= 2
    /\ Len(storage.documents) > Len(created)
    /\ Len(created[Len(created)].documentID) = 2
    /\ file = writeDocuments(storage.documents)

\* C25 (election timeout): when #electionTimeout[h] fires, the interval of h
\* is cancelled and h is evicted, and the node becomes LEADER (it runs
\* #sendCoordinator) only if it has received no OK and no other election
\* interval is still running.
LeadsWhenLastTimeoutFires ==
    [][\A n, h \in HOSTS :
          h # n /\ ElectionTimeoutFires(n, h) =>
              /\ ~electionInterval'[n][h].live
              /\ ~hasAddress(nodes'[n], h)
              /\ BecomesLeader(n) =>
                    /\ ~receivedOK[n]
                    /\ \A p \in HOSTS \ {h} : ~electionInterval[n][p].live]_vars

\* Host n has handled an OK since it last started an election, its election
\* timers are cancelled, and it knows of no broker: it waits for the
\* COORDINATOR of a new leader.
AwaitsCoordinator(n) ==
    /\ n \in Live
    /\ receivedOK[n]
    /\ okFrom[n] # {}
    /\ \A p \in HOSTS : ~electionInterval[n][p].live /\ electionTimeout[n][p] = NoTimer
    /\ holders(nodes[n], ROLE_MB) = {}

\* C26 (no COORDINATOR after OK): a candidate that has received OK and gets
\* no COORDINATOR does not wait for ever: it starts a new election (or a
\* COORDINATOR reaches it after all).
OkWithoutCoordinatorRestarts ==
    \A n \in HOSTS : AwaitsCoordinator(n) ~> ~AwaitsCoordinator(n)

\* Host n is running an election: an ELECTION interval of it is live.
Electing(n) == \E p \in HOSTS : electionInterval[n][p].live

\* C27 (ELECTION from a lower peer): on an ELECTION of a peer of lower
\* priority the node cancels its pending pre-election timeout, sends the OK
\* to the peer and, unless it is running an election or is LEADER already,
\* starts its own election.
ElectionAnswered ==
    [][\A m \in net :
          /\ m.type = "ELECTION"
          /\ priorityOf(m.src) < PRIORITY(m.dst)
          /\ Deliver(m)
          => /\ preElectionTimeout'[m.dst] = NoTimer
             /\ Msg("OK", m.dst, m.src, <<>>) \in net'
             /\ ~Electing(m.dst) /\ ~leader[m.dst] =>
                   Electing(m.dst)' \/ leader'[m.dst]]_vars

\* C28 (COORDINATOR accepted): on a COORDINATOR of a sender of higher
\* priority the receiver has no pre-election timeout pending and no election
\* interval or timeout left, every address the payload lists has in its table
\* the roles the payload gives it, and the ACK COORDINATOR it has sent to the
\* sender carries the payload received.
CoordinatorAccepted ==
    [][\A m \in net :
          /\ m.type = "COORDINATOR"
          /\ priorityOf(m.src) > PRIORITY(m.dst)
          /\ Deliver(m)
          => /\ preElectionTimeout'[m.dst] = NoTimer
             /\ \A p \in HOSTS :
                   /\ ~electionInterval'[m.dst][p].live
                   /\ electionTimeout'[m.dst][p] = NoTimer
             /\ \A i \in 1..Len(m.nodeInfo) :
                   \A k \in 1..Len(nodes'[m.dst]) :
                       nodes'[m.dst][k].address = m.nodeInfo[i].address =>
                           nodes'[m.dst][k].roles = m.nodeInfo[i].roles
             /\ \A i \in 1..Len(m.nodeInfo) : hasAddress(nodes'[m.dst], m.nodeInfo[i].address)
             /\ Msg("ACK COORDINATOR", m.dst, m.src, m.nodeInfo) \in net'
             /\ \A a \in net' \ net :
                   a = Msg("ACK COORDINATOR", m.dst, m.src, m.nodeInfo)]_vars

\* A host that had sent ELECTION and received OK has accepted the COORDINATOR
\* of the leader: its ACK COORDINATOR, with the three entries of the payload,
\* is on the wire, and its table has the roles.
CoordinatorAcknowledged ==
    \E r, c \in Live :
        /\ okFrom[r] # {}
        /\ c \in acked[r]
        /\ \E a \in net :
              /\ a.type = "ACK COORDINATOR" /\ a.src = r /\ a.dst = c
              /\ Len(a.nodeInfo) = 3
              /\ nodeInfoOf(nodes[r]) = a.nodeInfo
        /\ holdsRole(nodes[r], c, ROLE_MB)

\* The host n handles a JOIN, a HELLO or an ACK HELLO that puts an address
\* into its table that was not there.
PeerAdded(n) ==
    /\ \E m \in net :
          /\ m.dst = n
          /\ m.type \in {"JOIN", "HELLO", "ACK HELLO"}
          /\ Deliver(m)
    /\ addresses(nodes'[n]) \ addresses(nodes[n]) # {}

\* C29 (pre-election debounce): whenever a JOIN, a HELLO or an ACK HELLO adds
\* a peer to the table, whatever the priority of the peer, the pre-election
\* timeout is armed anew: after the step it is pending with its full delay.
PeerAddedArmsPreElection ==
    [][\A n \in HOSTS :
          PeerAdded(n) => preElectionTimeout'[n] = DISCOVERY_PREELECTION_TIMEOUT]_vars

\* C30 (timer registries): for every registry and every peer at most one
\* timer is live: no HELLO timeout is pending and no COORDINATOR interval runs
\* that the registry of its host no longer refers to.
OneTimerPerKey ==
    \A n \in HOSTS :
        /\ \A p \in HOSTS : helloOrphan[n][p] = <<>>
        /\ \A o \in coordinatorOrphan[n] : ~o.live

\* The entry of host a in table t (the first one).
ownEntry(t, a) == t[indexOfAddress(t, a) + 1]

\* C31 (self-entry): when a node list is merged, the entries of the local
\* address are ignored: the receiver's own entry, its roles in particular, is
\* after the HELLO or ACK HELLO what it was before.
SelfEntryIgnored ==
    [][\A m \in net :
          /\ m.type \in {"HELLO", "ACK HELLO"}
          /\ hasAddress(m.nodeInfo, m.dst)
          /\ Deliver(m)
          => ownEntry(nodes'[m.dst], m.dst) = ownEntry(nodes[m.dst], m.dst)]_vars

\* C32 (invalid ELECTION): an ELECTION of a sender whose priority is not
\* below the receiver's, its own address included, is dropped: host 1, of the
\* lowest priority, sends no OK and keeps its table, flags and timers.
InvalidElectionDropped ==
    [][received' # received /\ datagram' = <<Word("ELECTION")>> =>
          /\ ~parsed'.failed /\ parsed'.type = "ELECTION"
          /\ replies' = {}
          /\ receiver' = receiver]_vars

\* Host 1 has a peer in its table and has received ELECTION as its latest
\* datagram; it has sent nothing.
InvalidElectionReceived ==
    /\ received = MaxDatagrams
    /\ datagram = <<Word("ELECTION")>>
    /\ Len(receiver.nodes) > 1
    /\ replies = {}

\* The intervals and timeouts of an instance.
timersOf(s) ==
    <<s.joinInterval, s.helloInterval, s.helloTimeout, s.helloOrphan, s.timerList,
      s.preElectionTimeout, s.electionInterval, s.electionTimeout,
      s.coordinatorInterval, s.coordinatorOrphan, s.coordinatorTimeout>>

\* The instance has no interval of the registry named field running.
nonePending(s, field) == \A p \in HOSTS : ~s[field][p].live

\* C33 (reply to a message never sent): an OK that arrives when no ELECTION
\* interval runs leaves receivedOK and the timers as they were; an ACK HELLO
\* or ACK COORDINATOR that arrives when no HELLO and no COORDINATOR interval
\* runs leaves the table and the timers as they were.
UnsolicitedReplyChangesNothing ==
    [][received' # received /\ ~parsed'.failed =>
          /\ parsed'.type = "OK" /\ nonePending(receiver, "electionInterval") =>
                /\ receiver'.receivedOK = receiver.receivedOK
                /\ timersOf(receiver') = timersOf(receiver)
          /\ /\ parsed'.type = "ACK"
             /\ nonePending(receiver, "helloInterval")
             /\ nonePending(receiver, "coordinatorInterval")
             => /\ receiver'.nodes = receiver.nodes
                /\ timersOf(receiver') = timersOf(receiver)]_vars

\* The timeout of the retry loop of host n to the peer p fires while its
\* interval still runs: no acknowledgement has stopped it.
RetryExpires(n, p) ==
    \/ helloInterval[n][p].live /\ HelloTimeoutFires(n, p)
    \/ electionInterval[n][p].live /\ ElectionTimeoutFires(n, p)
    \/ coordinatorInterval[n][p].live /\ CoordinatorTimeoutFires(n, p)

\* C34 (peer unresponsive): whenever the timeout of a HELLO, ELECTION or
\* COORDINATOR retry loop to a peer runs out unacknowledged, the retry is
\* cancelled and the peer is no longer in the sender's table.
UnresponsivePeerEvicted ==
    [][\A n, p \in HOSTS :
          p # n /\ RetryExpires(n, p) =>
              /\ ~helloInterval'[n][p].live
              /\ ~electionInterval'[n][p].live
              /\ ~coordinatorInterval'[n][p].live
              /\ ~hasAddress(nodes'[n], p)]_vars

\* C35 (removal): an address leaves the table of a running node only in the
\* step in which the timeout of a retry loop to that address fires; no
\* handler of a datagram and no other callback removes an entry.
RemovedOnlyByRetryExpiry ==
    [][\A n \in HOSTS, a \in ADDRESSES :
          /\ up[n] = "up" /\ up'[n] = "up"
          /\ hasAddress(nodes[n], a) /\ ~hasAddress(nodes'[n], a)
          => /\ a \in HOSTS \ {n}
             /\ \/ HelloTimeoutFires(n, a)
                \/ ElectionTimeoutFires(n, a)
                \/ CoordinatorTimeoutFires(n, a)]_vars

\* A running node has sent ELECTION to a peer that had fallen silent and no
\* longer has the peer in its table, while it still has another peer.
PeerRemoved ==
    \E n \in Live : \E h \in silent[n] :
        /\ ~hasAddress(nodes[n], h)
        /\ Len(nodes[n]) > 1
        /\ hasAddress(nodes[n], n)

\* The part e of an address without the bits the part m of the mask has.
hostPart(m, e) == e - BitAnd(m, e)

\* The part e of an address with every bit set that the part m of the mask
\* has not.
filledPart(m, e) == e + (255 - m) - BitAnd(255 - m, e)

\* The host bits of the four octets, read as one big-endian number.
bigEndian(address, mask) ==
    hostPart(mask[1], address[1]) * 16777216 + hostPart(mask[2], address[2]) * 65536
        + hostPart(mask[3], address[3]) * 256 + hostPart(mask[4], address[4])

\* Two addresses have the same network bits under the mask.
sameSubnet(a, b, mask) == \A i \in 1..4 : BitAnd(mask[i], a[i]) = BitAnd(mask[i], b[i])

\* C36 (priority and broadcast): getPriorityNumber returns the host bits of
\* the address read big-endian over the four octets, the broadcast address of
\* getNetworkInfo is octet by octet the address with every bit set that the
\* mask has not, and two distinct addresses of one subnet have distinct
\* priorities.
PriorityIsHostBits ==
    /\ \A q \in priorities : q.priority = bigEndian(q.address, netInfo.netmask)
    /\ \A k \in 1..Len(networkInfo) : \A i \in 1..4 :
          networkInfo[k].broadcast[i] =
              filledPart(networkInfo[k].netmask[i], networkInfo[k].address[i])
    /\ \A q, r \in priorities :
          q.address # r.address /\ sameSubnet(q.address, r.address, netInfo.netmask)
              => q.priority # r.priority

\* The priorities of two distinct addresses of the subnet of a /20 interface
\* are computed, and its broadcast address is.
TwoPrioritiesOfOneSubnet ==
    /\ netInfo.netmask = <<255, 255, 240, 0>>
    /\ Len(networkInfo) = 1
    /\ \E q, r \in priorities :
          /\ q.address # r.address
          /\ sameSubnet(q.address, r.address, netInfo.netmask)
          /\ sameSubnet(q.address, netInfo.address, netInfo.netmask)
          /\ q.address[3] # r.address[3]

\* The running nodes whose own entry has role.
selfHolders(role) == {n \in Live : holdsRole(nodes[n], n, role)}

CacheAgreesWithTable ==
    \A n \in Live : \A i \in 1..Len(nodes[n]) :
        /\ includes(nodes[n][i].roles, ROLE_MB) =>
              messageBroker[n].address = nodes[n][i].address
        /\ includes(nodes[n][i].roles, ROLE_GW) =>
              gateway[n].address = nodes[n][i].address

\* C39 (stale HELLO timeout): a timeout of a HELLO transaction that an ACK
\* HELLO has closed never stops the interval of a later transaction to the
\* same peer: when such a timeout runs, the HELLO interval for the peer is
\* left as it is.
StaleTimeoutSparesInterval ==
    [][\A n, p \in HOSTS :
          p # n /\ HelloOrphanFires(n, p) => helloInterval'[n][p] = helloInterval[n][p]]_vars

\* The node list names a MESSAGE_BROKER and no GATEWAY, or a GATEWAY and no
\* MESSAGE_BROKER: #findRoles throws on it.
oneRoleMissing(nodeList) ==
    (findByRole(nodeList, ROLE_MB) # 0) # (findByRole(nodeList, ROLE_GW) # 0)

\* C40 (failed HELLO): a HELLO or ACK HELLO whose list names exactly one of
\* MESSAGE_BROKER and GATEWAY, so that #findRoles throws, leaves the receiver
\* as it was: table, JOIN interval, recorded broker and gateway, and timers.
FailedHelloChangesNothing ==
    [][\A m \in net :
          /\ m.type \in {"HELLO", "ACK HELLO"}
          /\ oneRoleMissing(m.nodeInfo)
          /\ Deliver(m)
          => Local(m.dst)' = Local(m.dst)]_vars

====
